---- MODULE Spec2Model ----
(***************************************************************************)
(* A model of rust-eth-triedb: the layered Merkle Patricia Trie state      *)
(* store (diff layers over a path-keyed backend), the PathDB and MemoryDB  *)
(* backends, and the TrieDB batch update / commit / flush driver.          *)
(*                                                                         *)
(* The module holds several specifications over disjoint variables:        *)
(*   SpecLayers  - DiffLayers lookups (common/src/difflayer.rs)            *)
(*   SpecPathDB  - PathDB cache + RocksDB, commit_difflayer (pathdb.rs)    *)
(*   SpecMemDB   - MemoryDB batches under its RwLock (memorydb.rs)         *)
(*   Spec        - the TrieDB driver (triedb_reth.rs, triedb_basic.rs,     *)
(*                 triedb_disk.rs, triedb.rs)                              *)
(*   SpecTracer  - one TrieTracer and its callers (trie_tracer.rs)         *)
(*   SpecReads   - a TrieDB opened with state_at and read with the get    *)
(*                 calls before calculate_hash / commit (triedb_basic.rs)  *)
(*   SpecTasks   - batch_update_and_commit with the two tasks of its       *)
(*                 rayon::join running step by step (triedb_reth.rs)       *)
(*   SpecTrie    - one StateTrie over a backend: update, delete, get and   *)
(*                 commit (state_trie.rs, trie_committer.rs, node_set.rs)  *)
(*   SpecPathKV  - PathDB raw calls that all succeed, next to the map the   *)
(*                 callers wrote (pathdb.rs)                               *)
(*   SpecPathRace - a get_raw thread next to a writer thread on one PathDB, *)
(*                 each call one locked or database step at a time         *)
(*   SpecCalls   - one TrieDB called in any order (with or without         *)
(*                 state_at) over a backend whose reads may fail           *)
(*   SpecNodeSet - NodeSets filled with nodes and leaves in any order,      *)
(*                 merged and signed (node_set.rs)                         *)
(*   SpecManager - init_global_manager / get_global_triedb on the OnceLock  *)
(*                 singleton, called from two threads (triedb_manager.rs)  *)
(*   SpecPersist - latest_persist_state next to a thread that flushes with  *)
(*                 commit_difflayer (pathdb.rs)                            *)
(*   SpecUpdate  - update_and_commit of triedb.rs on any known state, with  *)
(*                 the storage_root_cache kept across calls and clones     *)
(*   SpecCommitLocks - the NodeSet locks of a parallel commit_children; its *)
(*                 fair variant is SpecCommitLocksFair                     *)
(*   SpecSmallTrie - a Trie with short keys and values: nodes embedded in   *)
(*                 their parent, hashed with the size rule and committed   *)
(* Each specification leaves the variables of the others unchanged.        *)
(*                                                                         *)
(* Conventions.  Option<T> is a sequence of length 0 (None) or 1 (Some).   *)
(* A map (HashMap) is a function whose DOMAIN is its key set.              *)
(***************************************************************************)
EXTENDS Integers, Sequences, FiniteSets, TLC

VARIABLES
    \* ---- SpecLayers
    dl_layers,      \* DiffLayers.diff_layers: Vec<Arc<DiffLayer>>
    dl_db,          \* the backend below the layers: key -> Option<blob>
    dl_res,         \* the last node lookup: [key, node, blob, backend_read]
    \* ---- SpecPathDB
    pdb_cache,      \* PathDB.cache: LruMap<Vec<u8>, Option<Vec<u8>>>, oldest first
    pdb_db,         \* the RocksDB default column family: key -> Option<bytes>
    pdb_last,       \* the last PathDB call: [op, ok, stale]
    \* ---- SpecMemDB
    mdb_nodes,      \* MemoryDB.nodes: the map behind the RwLock
    mdb_lock,       \* the RwLock: "free" or "write"
    mdb_batch,      \* the MemoryDBBatch being built: Vec<(key, Option<value>)>
    mdb_ops,        \* the operations of the batch apply_batch is applying
    mdb_pc,         \* apply_batch's position: 0 = not running, i = before op i
    mdb_pre,        \* the map as of the last completed write
    mdb_reader,     \* the reader thread: [st, key, waited]
    mdb_seen,       \* the reader's last get: [key, val, atomic, waited]
    \* ---- Spec (the driver)
    drv_db,         \* the backend: key -> bytes, the two markers included
    drv_flat,       \* the backend's flat storage-root table: owner -> root
    drv_chain,      \* the caller's pending blocks, newest first:
                    \* [block_number, state_root, difflayer: Option<DiffLayer>]
    drv_head,       \* the newest block: [block_number, state_root]
    drv_tdb,        \* the TrieDB instance: its fields
    drv_last,       \* the last call on the driver: [op, input, root_hash, res]
    \* ---- SpecTracer
    tr_tracer,      \* one TrieTracer: [inserts, deletes, access_list]
    tr_events,      \* the calls made on it so far: Seq([op, path])
    \* ---- SpecTrie
    tt_db,          \* the backend below the trie: key -> blob
    tt_trie,        \* one StateTrie: [root, owner, tracer, difflayer]
    tt_map,         \* what the callers stored: hashed address -> account
    tt_prev,        \* the call before the last one
    tt_last,        \* the last call: [op, key, value, present, before, after,
                    \*                 got, pre, parallel, set]
    tt_steps,       \* the number of calls so far
    \* ---- SpecReads
    rd_db,          \* the backend: key -> bytes
    rd_head,        \* the committed block: [state_root, difflayer: Option<DiffLayer>]
    rd_tdb,         \* the TrieDB instance
    rd_phase,       \* "closed", "reading" (after state_at) or "hashed"
    rd_reads,       \* the number of get calls since state_at
    rd_last,        \* the last call on the driver: [op, key, res]
    \* ---- SpecTasks
    tk_db,          \* the backend: key -> bytes
    tk_head,        \* the newest block: [state_root, difflayer: Option<DiffLayer>]
    tk_blocks,      \* the number of blocks committed
    tk_pc,          \* batch_update_and_commit: "idle" or "tasks" (inside rayon::join)
    tk_call,        \* the running call: [input, tdb, root_hash, difflayer,
                    \*   update_accounts, update_accounts_with_storage]
    tk_a,           \* Task 1: [acc: [tdb, res], rebuild, updates] (what is left)
    tk_b,           \* Task 2: owner -> [st, acc: [trie, res], todo]
    tk_last,        \* the last call: [op, res]
    \* ---- SpecPathKV
    kv_cache,       \* the LRU cache of the PathDB
    kv_db,          \* RocksDB: key -> Option<bytes>
    kv_map,         \* the key-value map the callers wrote: key -> Option<bytes>
    kv_last,        \* the last call: [op, key, res]
    \* ---- SpecPathRace
    rc_cache,       \* the LRU cache of the PathDB
    rc_db,          \* RocksDB: key -> Option<bytes>
    rc_reader,      \* the thread in get_raw: [pc, key, val]
    rc_writer,      \* the thread in put_raw / delete_raw / commit_difflayer:
                    \*   [pc, key, value, difflayer]
    rc_calls,       \* the number of calls begun
    rc_overlap,     \* TRUE once a call began while the other thread was in one
    \* ---- SpecCalls
    ca_db,          \* the backend: key -> bytes
    ca_head,        \* the newest block: [state_root, difflayer: Option<DiffLayer>]
    ca_tdb,         \* the TrieDB instance
    ca_calls,       \* the number of driver calls made
    ca_last,        \* the last call: [op, input, lost, before, at, res]
    \* ---- SpecNodeSet
    ns_a,           \* a NodeSet being built
    ns_b,           \* a second NodeSet being built
    ns_merged,      \* the MergedNodeSet: owner -> NodeSet
    ns_last,        \* the last operation and its outcome
    ns_steps,       \* operations done so far
    \* ---- SpecManager
    mg_cell,        \* MANAGER_INSTANCE: [state: "empty" | "running" | "set", by, path]
    mg_root_node,   \* TRUE once EMPTY_ROOT_NODE is initialized
    mg_threads,     \* thread -> [pc, op, path, res]
    mg_calls,       \* the number of calls begun
    \* ---- SpecPersist
    ps_cache,       \* the LRU cache of the PathDB
    ps_db,          \* RocksDB: key -> Option<bytes>
    ps_reader,      \* the thread in latest_persist_state:
                    \*   [pc, block_number_bytes, state_root_bytes]
    ps_writer,      \* the thread in commit_difflayer: [pc, block_number]
    ps_flushed,     \* the block number of the last commit_difflayer begun
    ps_reads,       \* latest_persist_state calls begun
    ps_last,        \* the result of the last latest_persist_state
    \* ---- SpecUpdate
    uc_cache,       \* storage_root_cache, shared by the driver and its clones
    uc_tdb,         \* the TrieDB instance
    uc_states,      \* the states the caller can build on: [state_root, layers]
    uc_calls,       \* the number of update_and_commit calls made
    uc_last,        \* the last call: [op, at, input, res]
    \* ---- SpecCommitLocks
    pc_main,        \* where the thread that called commit_children is
    pc_task,        \* where each child task of the parallel iterator is
    pc_todo,        \* the stores a child's commit_internal still has to make
    pc_held,        \* the NodeSet locks each thread holds, in acquisition order
    pc_size,        \* the number of add_node calls each NodeSet has received
    \* ---- SpecSmallTrie
    sm_db,          \* the backend below the trie: key -> blob
    sm_trie,        \* one Trie: [root, owner, tracer, difflayer]
    sm_last,        \* the last call: [op, pre, hashed, parallel, hash, set]
    sm_steps        \* the number of calls so far

dl_vars == <<dl_layers, dl_db, dl_res>>
pdb_vars == <<pdb_cache, pdb_db, pdb_last>>
mdb_vars == <<mdb_nodes, mdb_lock, mdb_batch, mdb_ops, mdb_pc, mdb_pre,
              mdb_reader, mdb_seen>>

drv_vars == <<drv_db, drv_flat, drv_chain, drv_head, drv_tdb, drv_last>>

tr_vars == <<tr_tracer, tr_events>>

tt_vars == <<tt_db, tt_trie, tt_map, tt_prev, tt_last, tt_steps>>

rd_vars == <<rd_db, rd_head, rd_tdb, rd_phase, rd_reads, rd_last>>

tk_vars == <<tk_db, tk_head, tk_blocks, tk_pc, tk_call, tk_a, tk_b, tk_last>>

kv_vars == <<kv_cache, kv_db, kv_map, kv_last>>

rc_vars == <<rc_cache, rc_db, rc_reader, rc_writer, rc_calls, rc_overlap>>

ca_vars == <<ca_db, ca_head, ca_tdb, ca_calls, ca_last>>

ns_vars == <<ns_a, ns_b, ns_merged, ns_last, ns_steps>>

mg_vars == <<mg_cell, mg_root_node, mg_threads, mg_calls>>

ps_vars == <<ps_cache, ps_db, ps_reader, ps_writer, ps_flushed, ps_reads, ps_last>>

uc_vars == <<uc_cache, uc_tdb, uc_states, uc_calls, uc_last>>

pc_vars == <<pc_main, pc_task, pc_todo, pc_held, pc_size>>

sm_vars == <<sm_db, sm_trie, sm_last, sm_steps>>

vars == <<dl_vars, pdb_vars, mdb_vars, drv_vars, tr_vars, tt_vars, rd_vars,
          tk_vars, kv_vars, rc_vars, ca_vars, ns_vars, mg_vars, ps_vars,
          uc_vars, pc_vars, sm_vars>>

\* What each specification leaves alone.
DLOthers == <<pdb_vars, mdb_vars, drv_vars, tr_vars, tt_vars, rd_vars,
              tk_vars, kv_vars, rc_vars, ca_vars, ns_vars, mg_vars, ps_vars,
              uc_vars, pc_vars, sm_vars>>
PDBOthers == <<dl_vars, mdb_vars, drv_vars, tr_vars, tt_vars, rd_vars,
               tk_vars, kv_vars, rc_vars, ca_vars, ns_vars, mg_vars, ps_vars,
               uc_vars, pc_vars, sm_vars>>
MDBOthers == <<dl_vars, pdb_vars, drv_vars, tr_vars, tt_vars, rd_vars,
               tk_vars, kv_vars, rc_vars, ca_vars, ns_vars, mg_vars, ps_vars,
               uc_vars, pc_vars, sm_vars>>
DrvOthers == <<dl_vars, pdb_vars, mdb_vars, tr_vars, tt_vars, rd_vars,
               tk_vars, kv_vars, rc_vars, ca_vars, ns_vars, mg_vars, ps_vars,
               uc_vars, pc_vars, sm_vars>>
TrOthers == <<dl_vars, pdb_vars, mdb_vars, drv_vars, tt_vars, rd_vars,
              tk_vars, kv_vars, rc_vars, ca_vars, ns_vars, mg_vars, ps_vars,
              uc_vars, pc_vars, sm_vars>>
TtOthers == <<dl_vars, pdb_vars, mdb_vars, drv_vars, tr_vars, rd_vars,
              tk_vars, kv_vars, rc_vars, ca_vars, ns_vars, mg_vars, ps_vars,
              uc_vars, pc_vars, sm_vars>>
RdOthers == <<dl_vars, pdb_vars, mdb_vars, drv_vars, tr_vars, tt_vars,
              tk_vars, kv_vars, rc_vars, ca_vars, ns_vars, mg_vars, ps_vars,
              uc_vars, pc_vars, sm_vars>>
TkOthers == <<dl_vars, pdb_vars, mdb_vars, drv_vars, tr_vars, tt_vars,
              rd_vars, kv_vars, rc_vars, ca_vars, ns_vars, mg_vars, ps_vars,
              uc_vars, pc_vars, sm_vars>>
KvOthers == <<dl_vars, pdb_vars, mdb_vars, drv_vars, tr_vars, tt_vars,
              rd_vars, tk_vars, rc_vars, ca_vars, ns_vars, mg_vars, ps_vars,
              uc_vars, pc_vars, sm_vars>>
RcOthers == <<dl_vars, pdb_vars, mdb_vars, drv_vars, tr_vars, tt_vars,
              rd_vars, tk_vars, kv_vars, ca_vars, ns_vars, mg_vars, ps_vars,
              uc_vars, pc_vars, sm_vars>>
CaOthers == <<dl_vars, pdb_vars, mdb_vars, drv_vars, tr_vars, tt_vars,
              rd_vars, tk_vars, kv_vars, rc_vars, ns_vars, mg_vars, ps_vars,
              uc_vars, pc_vars, sm_vars>>
NsOthers == <<dl_vars, pdb_vars, mdb_vars, drv_vars, tr_vars, tt_vars,
              rd_vars, tk_vars, kv_vars, rc_vars, ca_vars, mg_vars, ps_vars,
              uc_vars, pc_vars, sm_vars>>
MgOthers == <<dl_vars, pdb_vars, mdb_vars, drv_vars, tr_vars, tt_vars,
              rd_vars, tk_vars, kv_vars, rc_vars, ca_vars, ns_vars, ps_vars,
              uc_vars, pc_vars, sm_vars>>
PsOthers == <<dl_vars, pdb_vars, mdb_vars, drv_vars, tr_vars, tt_vars,
              rd_vars, tk_vars, kv_vars, rc_vars, ca_vars, ns_vars, mg_vars,
              uc_vars, pc_vars, sm_vars>>
UcOthers == <<dl_vars, pdb_vars, mdb_vars, drv_vars, tr_vars, tt_vars,
              rd_vars, tk_vars, kv_vars, rc_vars, ca_vars, ns_vars, mg_vars,
              ps_vars, pc_vars, sm_vars>>
PcOthers == <<dl_vars, pdb_vars, mdb_vars, drv_vars, tr_vars, tt_vars,
              rd_vars, tk_vars, kv_vars, rc_vars, ca_vars, ns_vars, mg_vars,
              ps_vars, uc_vars, sm_vars>>
SmOthers == <<dl_vars, pdb_vars, mdb_vars, drv_vars, tr_vars, tt_vars,
              rd_vars, tk_vars, kv_vars, rc_vars, ca_vars, ns_vars, mg_vars,
              ps_vars, uc_vars, pc_vars>>

----------------------------------------------------------------------------
(* Option<T> and maps *)

None == <<>>
Some(x) == <<x>>
IsSome(o) == Len(o) = 1
Unwrap(o) == o[1]

EmptyMap == [k \in {} |-> None]
MapPut(m, k, v) == [x \in (DOMAIN m) \cup {k} |-> IF x = k THEN v ELSE m[x]]
MapRemove(m, k) == [x \in (DOMAIN m) \ {k} |-> m[x]]
MapGet(m, k) == IF k \in DOMAIN m THEN Some(m[k]) ELSE None

\* Result<T, E> with panics: st is "Ok", "Err" or "Panic"; val is Option<T>.
Ok(x) == [st |-> "Ok", val |-> Some(x)]
Err == [st |-> "Err", val |-> None]
Panic == [st |-> "Panic", val |-> None]

----------------------------------------------------------------------------
(* common/src/difflayer.rs *)

\* TrieNode { hash: Option<B256>, blob: Option<Vec<u8>> }
TrieNode_new(hash, blob) == [hash |-> hash, blob |-> blob]

\* TrieNode::default(): both fields None
TrieNode_default == [hash |-> None, blob |-> None]

\* TrieNode::is_deleted: blob is None, or Some of an empty byte string
TrieNode_is_deleted(node) ==
    \/ ~IsSome(node.blob)
    \/ (IsSome(node.blob) /\ Len(Unwrap(node.blob)) = 0)

\* DiffLayer { diff_nodes, diff_storage_roots }
DiffLayer_new(diff_nodes, diff_storage_roots) ==
    [diff_nodes |-> diff_nodes, diff_storage_roots |-> diff_storage_roots]

DiffLayer_get_trie_nodes(layer, prefix) == MapGet(layer.diff_nodes, prefix)

DiffLayer_get_storage_root(layer, hased_address) ==
    MapGet(layer.diff_storage_roots, hased_address)

DiffLayer_is_empty(layer) ==
    DOMAIN layer.diff_nodes = {} /\ DOMAIN layer.diff_storage_roots = {}

\* DiffLayers::insert_difflayer: Vec::push, the layer goes to the back
DiffLayers_insert_difflayer(layers, difflayer) == Append(layers, difflayer)

\* The loop of DiffLayers::get_trie_nodes from index i on: the first layer
\* (in sequence order) that holds the key decides, whatever its entry is.
RECURSIVE GetTrieNodesFrom(_, _, _)
GetTrieNodesFrom(layers, i, prefix) ==
    IF i > Len(layers) THEN None
    ELSE LET node == DiffLayer_get_trie_nodes(layers[i], prefix)
         IN IF IsSome(node) THEN node
            ELSE GetTrieNodesFrom(layers, i + 1, prefix)

\* A seeded fault: the loop runs from the back of the vector.
RECURSIVE GetTrieNodesBackFrom(_, _, _)
GetTrieNodesBackFrom(layers, i, prefix) ==
    IF i < 1 THEN None
    ELSE LET node == DiffLayer_get_trie_nodes(layers[i], prefix)
         IN IF IsSome(node) THEN node
            ELSE GetTrieNodesBackFrom(layers, i - 1, prefix)

DiffLayers_get_trie_nodes_oldest_first(layers, prefix) ==
    GetTrieNodesBackFrom(layers, Len(layers), prefix)

DiffLayers_get_trie_nodes(layers, prefix) ==
    GetTrieNodesFrom(layers, 1, prefix)

RECURSIVE GetStorageRootFrom(_, _, _)
GetStorageRootFrom(layers, i, hased_address) ==
    IF i > Len(layers) THEN None
    ELSE LET root == DiffLayer_get_storage_root(layers[i], hased_address)
         IN IF IsSome(root) THEN root
            ELSE GetStorageRootFrom(layers, i + 1, hased_address)

RECURSIVE GetStorageRootBackFrom(_, _, _)
GetStorageRootBackFrom(layers, i, hased_address) ==
    IF i < 1 THEN None
    ELSE LET root == DiffLayer_get_storage_root(layers[i], hased_address)
         IN IF IsSome(root) THEN root
            ELSE GetStorageRootBackFrom(layers, i - 1, hased_address)

\* A seeded fault: the oldest layer's storage root wins.
DiffLayers_get_storage_root_oldest_first(layers, hased_address) ==
    GetStorageRootBackFrom(layers, Len(layers), hased_address)

DiffLayers_get_storage_root(layers, hased_address) ==
    GetStorageRootFrom(layers, 1, hased_address)

\* The trie's node reader (spec section 4.4, "View order for reads"): the
\* diff layers first; a deleted entry there reads as absent; the backend
\* only when no layer holds the key.  difflayer is an Option<DiffLayers>.
\* Returns the blob found and whether the backend was read.
ReadNode(difflayer, db, key) ==
    LET node == IF IsSome(difflayer)
                THEN DiffLayers_get_trie_nodes(Unwrap(difflayer), key)
                ELSE None
    IN IF IsSome(node)
       THEN [node |-> node,
             blob |-> IF TrieNode_is_deleted(Unwrap(node)) THEN None
                      ELSE Unwrap(node).blob,
             backend_read |-> FALSE]
       ELSE [node |-> None, blob |-> MapGet(db, key), backend_read |-> TRUE]

----------------------------------------------------------------------------
(* Hashes, nodes and their encoding: state-trie/src/node/node.rs,          *)
(* state-trie/src/account.rs.  Keccak-256 is modelled as the injective     *)
(* wrapper of its input, so a hash is equal to another exactly when the    *)
(* hashed bytes are.  Hashed addresses and slot keys are one byte long     *)
(* in the account and storage tries and stand for 32-byte hashes: there    *)
(* every encoded node is 32 bytes or longer and HashedNode gives it a      *)
(* hash.  HashedSmall is the hasher with the size rule, for tries whose    *)
(* keys and values are the short byte strings they are written as.         *)

keccak256(bytes) == [keccak |-> bytes]

\* alloy_trie::EMPTY_ROOT_HASH = keccak256(rlp("")) = keccak256([0x80])
EMPTY_ROOT_HASH == keccak256(<<128>>)

\* alloy_trie::KECCAK_EMPTY = keccak256([])
KECCAK_EMPTY == keccak256(<<>>)

\* B256::ZERO, the owner of the account trie
B256_ZERO == <<0>>

\* StateAccount and its RLP list [nonce, balance, storage_root, code_hash]
StateAccount(nonce, balance, storage_root, code_hash) ==
    [nonce |-> nonce, balance |-> balance,
     storage_root |-> storage_root, code_hash |-> code_hash]

StateAccount_default == StateAccount(0, 0, EMPTY_ROOT_HASH, KECCAK_EMPTY)

StateAccount_to_rlp(account) ==
    <<account.nonce, account.balance, account.storage_root, account.code_hash>>

\* StateAccount::from_rlp: Err when the bytes are not a four-element list
StateAccount_from_rlp(data) ==
    IF Len(data) = 4
    THEN Ok(StateAccount(data[1], data[2], data[3], data[4]))
    ELSE Err

\* alloy_rlp::encode(U256): a single byte below 0x80 is its own encoding,
\* zero is the empty string 0x80, larger values get a length prefix.
RECURSIVE BeBytes(_)
BeBytes(n) == IF n = 0 THEN <<>> ELSE BeBytes(n \div 256) \o <<n % 256>>

rlp_encode_u256(value) ==
    IF value = 0 THEN <<128>>
    ELSE IF value < 128 THEN <<value>>
    ELSE <<128 + Len(BeBytes(value))>> \o BeBytes(value)

NodeFlag(hash, dirty) == [hash |-> hash, dirty |-> dirty]
NodeFlag_default == NodeFlag(None, TRUE)

EmptyNode == [t |-> "empty"]
ValueNode(v) == [t |-> "value", v |-> v]
HashNode(h) == [t |-> "hash", h |-> h]
ShortNode(key, val, flags) == [t |-> "short", key |-> key, val |-> val, flags |-> flags]
FullNode(children, flags) == [t |-> "full", children |-> children, flags |-> flags]

\* Node::cache
Node_cache(node) ==
    IF node.t \in {"short", "full"} THEN node.flags ELSE NodeFlag(None, FALSE)

\* encoding: key bytes -> nibbles with the terminator 16
RECURSIVE keybytes_to_hex(_)
keybytes_to_hex(bytes) ==
    IF Len(bytes) = 0 THEN <<16>>
    ELSE <<Head(bytes) \div 16, Head(bytes) % 16>> \o keybytes_to_hex(Tail(bytes))

has_term(hex) == Len(hex) > 0 /\ hex[Len(hex)] = 16

RECURSIVE NibblesToBytes(_)
NibblesToBytes(nibbles) ==
    IF Len(nibbles) < 2 THEN <<>>
    ELSE <<nibbles[1] * 16 + nibbles[2]>> \o NibblesToBytes(Tail(Tail(nibbles)))

RECURSIVE BytesToNibbles(_)
BytesToNibbles(bytes) ==
    IF Len(bytes) = 0 THEN <<>>
    ELSE <<Head(bytes) \div 16, Head(bytes) % 16>> \o BytesToNibbles(Tail(bytes))

\* encoding::hex_to_compact: flag nibble (2 = leaf, 1 = odd length), then
\* the nibbles packed two per byte
hex_to_compact(hex) ==
    LET terminator == IF has_term(hex) THEN 1 ELSE 0
        h == IF has_term(hex) THEN SubSeq(hex, 1, Len(hex) - 1) ELSE hex
    IN IF Len(h) % 2 = 1
       THEN <<(2 * terminator + 1) * 16 + h[1]>> \o NibblesToBytes(Tail(h))
       ELSE <<(2 * terminator) * 16>> \o NibblesToBytes(h)

\* encoding::compact_to_hex
compact_to_hex(compact) ==
    IF Len(compact) = 0 THEN <<>>
    ELSE LET base == BytesToNibbles(compact)
             withterm == IF base[1] >= 2 THEN Append(base, 16) ELSE base
             chop == 2 - (withterm[1] % 2)
         IN SubSeq(withterm, chop + 1, Len(withterm))

RECURSIVE node_to_bytes(_)

\* The reference to a child inside an encoded node: the empty string, the
\* 32-byte hash, the value bytes of a leaf / of slot 16, or the encoding
\* of the child itself when the child has no hash (an embedded node).
ChildRef(child) ==
    CASE child.t = "empty" -> <<>>
      [] child.t = "hash" -> <<child.h>>
      [] child.t = "value" -> child.v
      [] OTHER -> IF IsSome(child.flags.hash) THEN <<Unwrap(child.flags.hash)>>
                  ELSE node_to_bytes(child)

\* Node::node_to_bytes of a collapsed node (its key is in compact form, its
\* children are hash nodes, values or empty): RLP [key, ref] or
\* RLP [ref x 16, value]
node_to_bytes(node) ==
    IF node.t = "short"
    THEN <<node.key, ChildRef(node.val)>>
    ELSE [i \in 1..17 |-> ChildRef(node.children[i])]

RECURSIVE decode_node(_, _)

\* Node::decode_ref: the empty string, a 32-byte hash, or a list, which is
\* an embedded node and is decoded without a hash
decode_ref(buf) ==
    IF Len(buf) = 0 THEN EmptyNode
    ELSE IF Len(buf) = 1 THEN HashNode(buf[1])
    ELSE Unwrap(decode_node(None, buf).val)

\* Node::decode_node: 2 elements -> Short, 17 -> Full, else an error
decode_node(hash, buf) ==
    IF Len(buf) = 2
    THEN LET key == compact_to_hex(buf[1])
         IN Ok(ShortNode(key,
                         IF has_term(key) THEN ValueNode(buf[2]) ELSE decode_ref(buf[2]),
                         NodeFlag(hash, FALSE)))
    ELSE IF Len(buf) = 17
    THEN Ok(FullNode([i \in 1..17 |->
                        IF i = 17
                        THEN (IF Len(buf[17]) = 0 THEN EmptyNode ELSE ValueNode(buf[17]))
                        ELSE decode_ref(buf[i])],
                     NodeFlag(hash, FALSE)))
    ELSE Err

\* encoding: the backend key of a trie node
account_trie_node_key(path) == <<"A">> \o path
storage_trie_node_key(owner, path) == <<"S">> \o owner \o path

\* the key of every node taken as an account trie key
NodeKeyWithoutOwner(owner, path) == account_trie_node_key(path)

NodeKey(owner, path) ==
    IF owner = B256_ZERO THEN account_trie_node_key(path)
    ELSE storage_trie_node_key(owner, path)

----------------------------------------------------------------------------
(* state-trie/src/trie_tracer.rs *)

TrieTracer_new == [inserts |-> {}, deletes |-> {}, access_list |-> EmptyMap]

\* on_read that forgets the blob
on_read_not_recorded(tracer, path, val) == tracer

on_read(tracer, path, val) ==
    [tracer EXCEPT !.access_list = MapPut(tracer.access_list, path, val)]

\* on_insert without the resurrection case
on_insert_always(tracer, path) ==
    [tracer EXCEPT !.inserts = tracer.inserts \cup {path}]

on_insert(tracer, path) ==
    IF path \in tracer.deletes
    THEN [tracer EXCEPT !.deletes = tracer.deletes \ {path}]
    ELSE [tracer EXCEPT !.inserts = tracer.inserts \cup {path}]

on_delete(tracer, path) ==
    IF path \in tracer.inserts
    THEN [tracer EXCEPT !.inserts = tracer.inserts \ {path}]
    ELSE [tracer EXCEPT !.deletes = tracer.deletes \cup {path}]

\* deleted_nodes without the access_list filter
deleted_nodes_unfiltered(tracer) == tracer.deletes

deleted_nodes(tracer) ==
    { path \in tracer.deletes : path \in DOMAIN tracer.access_list }

----------------------------------------------------------------------------
(* The trie core (spec section 4.4): get / update / delete over nodes that *)
(* are resolved lazily through the diff layers and the backend.  A trie    *)
(* is [root, owner, tracer, difflayer]; db is the backend it reads.        *)

Trie_new(root_hash, owner, difflayer) ==
    [root |-> IF root_hash = EMPTY_ROOT_HASH THEN EmptyNode ELSE HashNode(root_hash),
     owner |-> owner,
     tracer |-> TrieTracer_new,
     difflayer |-> difflayer]

\* The result of a walk: the rebuilt node, the tracer, whether something
\* changed, the value found (get) and whether a node could not be resolved.
Walk(dirty, node, tracer, err) ==
    [dirty |-> dirty, node |-> node, tracer |-> tracer, err |-> err, value |-> None]

Found(value, node, tracer, err) ==
    [dirty |-> FALSE, node |-> node, tracer |-> tracer, err |-> err, value |-> value]

PrefixLen(a, b) ==
    LET n == IF Len(a) < Len(b) THEN Len(a) ELSE Len(b)
        same == { i \in 0..n : \A j \in 1..i : a[j] = b[j] }
    IN CHOOSE i \in same : \A k \in same : k <= i

\* Resolve the hash node at path prefix: the blob comes from the view, is
\* decoded with the expected hash as its cached hash, and is recorded by
\* the tracer.  A missing or undecodable node is an error.
Resolve(t, db, tracer, n, prefix) ==
    LET blob == ReadNode(t.difflayer, db, NodeKey(t.owner, prefix)).blob
    IN IF ~IsSome(blob) THEN Walk(FALSE, n, tracer, TRUE)
       ELSE LET d == decode_node(Some(n.h), Unwrap(blob))
            IN IF d.st # "Ok" THEN Walk(FALSE, n, tracer, TRUE)
               ELSE Walk(FALSE, Unwrap(d.val), on_read(tracer, prefix, Unwrap(blob)), FALSE)

Drop(s, k) == SubSeq(s, k + 1, Len(s))
Take(s, k) == SubSeq(s, 1, k)

RECURSIVE TrieGet(_, _, _, _, _, _)
TrieGet(t, db, tracer, n, key, pos) ==
    CASE n.t = "empty" -> Found(None, n, tracer, FALSE)
      [] n.t = "value" -> Found(Some(n.v), n, tracer, FALSE)
      [] n.t = "short" ->
            IF Len(key) - pos < Len(n.key) \/ Take(Drop(key, pos), Len(n.key)) # n.key
            THEN Found(None, n, tracer, FALSE)
            ELSE LET r == TrieGet(t, db, tracer, n.val, key, pos + Len(n.key))
                 IN Found(r.value, [n EXCEPT !.val = r.node], r.tracer, r.err)
      [] n.t = "full" ->
            LET r == TrieGet(t, db, tracer, n.children[key[pos + 1] + 1], key, pos + 1)
            IN Found(r.value,
                     [n EXCEPT !.children[key[pos + 1] + 1] = r.node], r.tracer, r.err)
      [] n.t = "hash" ->
            LET rn == Resolve(t, db, tracer, n, Take(key, pos))
            IN IF rn.err THEN Found(None, n, tracer, TRUE)
               ELSE TrieGet(t, db, rn.tracer, rn.node, key, pos)

RECURSIVE TrieInsert(_, _, _, _, _, _, _)
TrieInsert(t, db, tracer, n, prefix, key, value) ==
    IF Len(key) = 0
    THEN IF n.t = "value" THEN Walk(n.v # value.v, value, tracer, FALSE)
         ELSE Walk(TRUE, value, tracer, FALSE)
    ELSE CASE n.t = "short" ->
            LET matchlen == PrefixLen(key, n.key)
            IN IF matchlen = Len(n.key)
               THEN LET r == TrieInsert(t, db, tracer, n.val, prefix \o Take(key, matchlen),
                                        Drop(key, matchlen), value)
                    IN IF ~r.dirty \/ r.err
                       THEN Walk(FALSE, [n EXCEPT !.val = r.node], r.tracer, r.err)
                       ELSE Walk(TRUE, ShortNode(n.key, r.node, NodeFlag_default),
                                 r.tracer, FALSE)
               ELSE LET r1 == TrieInsert(t, db, tracer, EmptyNode,
                                         prefix \o Take(n.key, matchlen + 1),
                                         Drop(n.key, matchlen + 1), n.val)
                        r2 == TrieInsert(t, db, r1.tracer, EmptyNode,
                                         prefix \o Take(key, matchlen + 1),
                                         Drop(key, matchlen + 1), value)
                        branch == FullNode(
                            [i \in 1..17 |->
                                IF i = n.key[matchlen + 1] + 1 THEN r1.node
                                ELSE IF i = key[matchlen + 1] + 1 THEN r2.node
                                ELSE EmptyNode],
                            NodeFlag_default)
                    IN IF matchlen = 0 THEN Walk(TRUE, branch, r2.tracer, FALSE)
                       ELSE Walk(TRUE,
                                 ShortNode(Take(key, matchlen), branch, NodeFlag_default),
                                 on_insert(r2.tracer, prefix \o Take(key, matchlen)),
                                 FALSE)
          [] n.t = "full" ->
            LET r == TrieInsert(t, db, tracer, n.children[key[1] + 1],
                                Append(prefix, key[1]), Tail(key), value)
            IN IF ~r.dirty \/ r.err
               THEN Walk(FALSE, [n EXCEPT !.children[key[1] + 1] = r.node], r.tracer, r.err)
               ELSE Walk(TRUE,
                         FullNode([n.children EXCEPT ![key[1] + 1] = r.node],
                                  NodeFlag_default),
                         r.tracer, FALSE)
          [] n.t = "empty" ->
            Walk(TRUE, ShortNode(key, value, NodeFlag_default),
                 on_insert(tracer, prefix), FALSE)
          [] n.t = "hash" ->
            LET rn == Resolve(t, db, tracer, n, prefix)
            IN IF rn.err THEN Walk(FALSE, n, tracer, TRUE)
               ELSE TrieInsert(t, db, rn.tracer, rn.node, prefix, key, value)

\* The slots of a full node that are not Empty.
UsedSlots(children) == { i \in 1..17 : children[i].t # "empty" }

RECURSIVE TrieDelete(_, _, _, _, _, _)
TrieDelete(t, db, tracer, n, prefix, key) ==
    CASE n.t = "short" ->
            LET matchlen == PrefixLen(key, n.key)
            IN IF matchlen < Len(n.key) THEN Walk(FALSE, n, tracer, FALSE)
               ELSE IF matchlen = Len(key)
               THEN Walk(TRUE, EmptyNode, on_delete(tracer, prefix), FALSE)
               ELSE LET r == TrieDelete(t, db, tracer, n.val,
                                        prefix \o Take(key, Len(n.key)),
                                        Drop(key, Len(n.key)))
                    IN IF ~r.dirty \/ r.err
                       THEN Walk(FALSE, [n EXCEPT !.val = r.node], r.tracer, r.err)
                       ELSE IF r.node.t = "short"
                       THEN Walk(TRUE,
                                 ShortNode(n.key \o r.node.key, r.node.val, NodeFlag_default),
                                 on_delete(r.tracer, prefix \o n.key), FALSE)
                       ELSE Walk(TRUE, ShortNode(n.key, r.node, NodeFlag_default),
                                 r.tracer, FALSE)
      [] n.t = "full" ->
            LET r == TrieDelete(t, db, tracer, n.children[key[1] + 1],
                                Append(prefix, key[1]), Tail(key))
            IN IF ~r.dirty \/ r.err
               THEN Walk(FALSE, [n EXCEPT !.children[key[1] + 1] = r.node], r.tracer, r.err)
               ELSE LET children == [n.children EXCEPT ![key[1] + 1] = r.node]
                        nn == FullNode(children, NodeFlag_default)
                        used == UsedSlots(children)
                    IN IF r.node.t # "empty" \/ Cardinality(used) # 1
                       THEN Walk(TRUE, nn, r.tracer, FALSE)
                       ELSE LET slot == CHOOSE i \in used : TRUE
                                pos == slot - 1
                                child == children[slot]
                                cn == IF pos # 16 /\ child.t = "hash"
                                      THEN Resolve(t, db, r.tracer, child, Append(prefix, pos))
                                      ELSE Walk(FALSE, child, r.tracer, FALSE)
                            IN IF cn.err THEN Walk(FALSE, n, r.tracer, TRUE)
                               ELSE IF pos # 16 /\ cn.node.t = "short"
                               THEN Walk(TRUE,
                                         ShortNode(<<pos>> \o cn.node.key, cn.node.val,
                                                   NodeFlag_default),
                                         on_delete(cn.tracer, Append(prefix, pos)), FALSE)
                               ELSE Walk(TRUE,
                                         ShortNode(<<pos>>, children[slot], NodeFlag_default),
                                         cn.tracer, FALSE)
      [] n.t = "value" -> Walk(TRUE, EmptyNode, tracer, FALSE)
      [] n.t = "empty" -> Walk(FALSE, n, tracer, FALSE)
      [] n.t = "hash" ->
            LET rn == Resolve(t, db, tracer, n, prefix)
            IN IF rn.err THEN Walk(FALSE, n, tracer, TRUE)
               ELSE TrieDelete(t, db, rn.tracer, rn.node, prefix, key)

\* Trie::get / update / delete on key bytes.  Each returns the trie and the
\* outcome: Ok(value) for get, Ok(<<>>) for the writes, Err on a failed
\* resolution.  An update with an empty value is a delete.
\* The trie after a walk that read: the resolved nodes stay loaded
TrieRead(t, r) ==
    [trie |-> IF r.err THEN t ELSE [t EXCEPT !.root = r.node, !.tracer = r.tracer],
     res |-> IF r.err THEN Err ELSE Ok(r.value)]

\* The trie after a walk that wrote; an error leaves the trie as it was
TrieWritten(t, r) ==
    [trie |-> IF r.err THEN t ELSE [t EXCEPT !.root = r.node, !.tracer = r.tracer],
     res |-> IF r.err THEN Err ELSE Ok(<<>>)]

Trie_get(t, db, key) ==
    TrieRead(t, TrieGet(t, db, t.tracer, t.root, keybytes_to_hex(key), 0))

Trie_delete(t, db, key) ==
    TrieWritten(t, TrieDelete(t, db, t.tracer, t.root, <<>>, keybytes_to_hex(key)))

Trie_update(t, db, key, value) ==
    IF Len(value) = 0 THEN Trie_delete(t, db, key)
    ELSE TrieWritten(t, TrieInsert(t, db, t.tracer, t.root, <<>>, keybytes_to_hex(key),
                                   ValueNode(value)))

\* Trie::hash: clean nodes answer with their cached hash, dirty nodes are
\* encoded over their children's hashes; the empty trie is EMPTY_ROOT.
RECURSIVE HashedNode(_)
HashedNode(n) ==
    CASE n.t = "short" ->
            IF IsSome(n.flags.hash) /\ ~n.flags.dirty THEN n
            ELSE LET collapsed == [n EXCEPT !.key = hex_to_compact(n.key),
                                            !.val = IF n.val.t = "full"
                                                    THEN HashNode(Unwrap(HashedNode(n.val).flags.hash))
                                                    ELSE n.val]
                 IN [n EXCEPT !.val = IF n.val.t = "full" THEN HashedNode(n.val) ELSE n.val,
                              !.flags = NodeFlag(Some(keccak256(node_to_bytes(collapsed))), TRUE)]
      [] n.t = "full" ->
            IF IsSome(n.flags.hash) /\ ~n.flags.dirty THEN n
            ELSE LET kids == [i \in 1..17 |-> HashedNode(n.children[i])]
                     collapsed == [n EXCEPT !.children =
                                     [i \in 1..17 |->
                                        IF kids[i].t \in {"short", "full"}
                                        THEN HashNode(Unwrap(kids[i].flags.hash))
                                        ELSE kids[i]]]
                 IN [n EXCEPT !.children = kids,
                              !.flags = NodeFlag(Some(keccak256(node_to_bytes(collapsed))), TRUE)]
      [] OTHER -> n

RootHash(hashed_root) ==
    CASE hashed_root.t = "empty" -> EMPTY_ROOT_HASH
      [] hashed_root.t = "hash" -> hashed_root.h
      [] OTHER -> Unwrap(hashed_root.flags.hash)

Trie_hash(t) == RootHash(HashedNode(t.root))

\* The size in bytes of the RLP string of a byte string, and of a list with
\* a payload of that many bytes
RlpStringSize(bytes) ==
    IF Len(bytes) = 1 /\ bytes[1] < 128 THEN 1
    ELSE IF Len(bytes) < 56 THEN 1 + Len(bytes)
    ELSE 2 + Len(bytes)

RlpListSize(payload) == IF payload < 56 THEN 1 + payload ELSE 2 + payload

RECURSIVE EncodedSize(_)
RECURSIVE RefsSize(_, _)

\* The size of a child reference: the empty string, a 32-byte string, or
\* the embedded list
RefSize(ref) ==
    IF Len(ref) = 0 THEN 1
    ELSE IF Len(ref) = 1 THEN 33
    ELSE EncodedSize(ref)

RefsSize(enc, n) == IF n = 0 THEN 0 ELSE RefSize(enc[n]) + RefsSize(enc, n - 1)

\* The size of an encoded node: RLP [key, value or ref] (a compact key
\* with the leaf flag is followed by a value) or RLP [ref x 16, value]
EncodedSize(enc) ==
    IF Len(enc) = 2
    THEN RlpListSize(RlpStringSize(enc[1])
                     + (IF enc[1][1] >= 32 THEN RlpStringSize(enc[2])
                        ELSE RefSize(enc[2])))
    ELSE RlpListSize(RefsSize(enc, 16)
                     + (IF Len(enc[17]) = 0 THEN 1 ELSE RlpStringSize(enc[17])))

\* The collapsed copy of a hashed node: compact keys in the node and in
\* the nodes embedded in it
RECURSIVE Collapsed(_)
Collapsed(n) ==
    CASE n.t = "short" ->
            [n EXCEPT !.key = hex_to_compact(n.key),
                      !.val = IF IsSome(Node_cache(n.val).hash) THEN n.val
                              ELSE Collapsed(n.val)]
      [] n.t = "full" ->
            [n EXCEPT !.children =
                [i \in 1..17 |-> IF IsSome(Node_cache(n.children[i]).hash)
                                  THEN n.children[i]
                                  ELSE Collapsed(n.children[i])]]
      [] OTHER -> n

\* The size rule of the hasher: a node whose encoding is shorter than 32
\* bytes gets no hash and is embedded in its parent, unless it is the root
SmallHashed(n, force) ==
    [n EXCEPT !.flags.hash =
        IF force \/ EncodedSize(node_to_bytes(Collapsed(n))) >= 32
        THEN Some(keccak256(node_to_bytes(Collapsed(n))))
        ELSE None]

\* Trie::hash with the size rule (spec section 4.4)
RECURSIVE HashedSmall(_, _)
HashedSmall(n, force) ==
    CASE n.t = "short" ->
            IF IsSome(n.flags.hash) /\ ~n.flags.dirty THEN n
            ELSE SmallHashed([n EXCEPT !.val = HashedSmall(n.val, FALSE)], force)
      [] n.t = "full" ->
            IF IsSome(n.flags.hash) /\ ~n.flags.dirty THEN n
            ELSE SmallHashed([n EXCEPT !.children =
                                 [i \in 1..17 |-> HashedSmall(n.children[i], FALSE)]],
                             force)
      [] OTHER -> n

----------------------------------------------------------------------------
(* state-trie/src/node/node_set.rs *)

NodeSet_new(owner) ==
    [owner |-> owner, leaves |-> <<>>, nodes |-> EmptyMap, updates |-> 0, deletes |-> 0]

\* String::from_utf8_lossy on a path: an ASCII byte is kept, a byte that is
\* not valid UTF-8 on its own becomes U+FFFD (EF BF BD)
RECURSIVE from_utf8_lossy(_)
from_utf8_lossy(path) ==
    IF path = <<>> THEN <<>>
    ELSE (IF Head(path) < 128 THEN <<Head(path)>> ELSE <<239, 191, 189>>)
         \o from_utf8_lossy(Tail(path))

\* add_node that counts every entry as an update
add_node_counts_updates(set, path, node) ==
    [set EXCEPT !.nodes = MapPut(set.nodes, from_utf8_lossy(path), node),
                !.updates = @ + 1]

add_node(set, path, node) ==
    [set EXCEPT !.nodes = MapPut(set.nodes, from_utf8_lossy(path), node),
                !.updates = IF TrieNode_is_deleted(node) THEN @ ELSE @ + 1,
                !.deletes = IF TrieNode_is_deleted(node) THEN @ + 1 ELSE @]

add_leaf(set, parent, blob) ==
    [set EXCEPT !.leaves = Append(@, [blob |-> blob, parent |-> parent])]

\* merge_set that extends the node map alone
merge_set_nodes_only(set, other) ==
    IF set.owner # other.owner THEN Err
    ELSE Ok([set EXCEPT
               !.nodes = [p \in (DOMAIN set.nodes) \cup (DOMAIN other.nodes) |->
                            IF p \in DOMAIN other.nodes THEN other.nodes[p]
                            ELSE set.nodes[p]]])

\* merge_set without the owner check
merge_set_any_owner(set, other) ==
    Ok([set EXCEPT
          !.nodes = [p \in (DOMAIN set.nodes) \cup (DOMAIN other.nodes) |->
                       IF p \in DOMAIN other.nodes THEN other.nodes[p]
                       ELSE set.nodes[p]],
          !.leaves = @ \o other.leaves,
          !.updates = @ + other.updates,
          !.deletes = @ + other.deletes])

\* NodeSet::merge_set: Err on different owners, else maps and leaves
\* extended and counters added
merge_set(set, other) ==
    IF set.owner # other.owner THEN Err
    ELSE Ok([set EXCEPT
               !.nodes = [p \in (DOMAIN set.nodes) \cup (DOMAIN other.nodes) |->
                            IF p \in DOMAIN other.nodes THEN other.nodes[p]
                            ELSE set.nodes[p]],
               !.leaves = @ \o other.leaves,
               !.updates = @ + other.updates,
               !.deletes = @ + other.deletes])

\* Ord on byte strings (B256, Vec<u8>, String): lexicographic
RECURSIVE BytesLess(_, _)
BytesLess(a, b) ==
    IF b = <<>> THEN FALSE
    ELSE IF a = <<>> THEN TRUE
    ELSE IF Head(a) = Head(b) THEN BytesLess(Tail(a), Tail(b))
    ELSE Head(a) < Head(b)

\* the comparator of leaves_sorted.sort_by: parent, then blob
LeafLess(a, b) ==
    IF a.parent = b.parent THEN BytesLess(a.blob, b.blob)
    ELSE BytesLess(a.parent, b.parent)

InsertLeaf(sorted, leaf) ==
    LET k == Cardinality({ i \in 1..Len(sorted) : ~LeafLess(leaf, sorted[i]) })
    IN SubSeq(sorted, 1, k) \o <<leaf>> \o SubSeq(sorted, k + 1, Len(sorted))

\* leaves.clone() sorted by the stable sort_by
RECURSIVE leaves_sorted(_)
leaves_sorted(leaves) ==
    IF leaves = <<>> THEN <<>>
    ELSE InsertLeaf(leaves_sorted(SubSeq(leaves, 1, Len(leaves) - 1)),
                    leaves[Len(leaves)])

\* the keys of the node map sorted by String::cmp
RECURSIVE nodes_sorted(_)
nodes_sorted(keys) ==
    IF keys = {} THEN <<>>
    ELSE LET first == CHOOSE k \in keys : \A other \in keys \ {k} : BytesLess(k, other)
         IN <<first>> \o nodes_sorted(keys \ {first})

\* (n as u64).to_be_bytes() of a counter below 2^31
U64BeBytes(n) ==
    <<0, 0, 0, 0, (n \div 16777216) % 256, (n \div 65536) % 256,
      (n \div 256) % 256, n % 256>>

RECURSIVE LeafBytes(_)
LeafBytes(leaves) ==
    IF leaves = <<>> THEN <<>>
    ELSE Head(leaves).parent \o Head(leaves).blob \o LeafBytes(Tail(leaves))

NodeBytes(key, node) ==
    key \o (IF IsSome(node.hash) THEN <<1>> \o Unwrap(node.hash) ELSE <<>>)
        \o (IF IsSome(node.blob) THEN <<1>> \o Unwrap(node.blob) ELSE <<>>)

RECURSIVE NodesBytes(_, _)
NodesBytes(nodes, keys) ==
    IF keys = <<>> THEN <<>>
    ELSE NodeBytes(Head(keys), nodes[Head(keys)]) \o NodesBytes(nodes, Tail(keys))

SignatureOver(set, leaves) ==
    keccak256(set.owner \o LeafBytes(leaves)
              \o NodesBytes(set.nodes, nodes_sorted(DOMAIN set.nodes))
              \o U64BeBytes(set.updates) \o U64BeBytes(set.deletes))

\* signature that serializes the leaves in the order they were pushed
signature_unsorted(set) == SignatureOver(set, set.leaves)

\* NodeSet::signature: Keccak-256 over owner, sorted leaves, sorted nodes
\* and the two counters
signature(set) == SignatureOver(set, leaves_sorted(set.leaves))

MergedNodeSet_new == EmptyMap

\* MergedNodeSet::merge: panics when the owner is already present
MergedNodeSet_merge(sets, other) ==
    IF other.owner \in DOMAIN sets THEN Panic
    ELSE Ok(MapPut(sets, other.owner, other))

\* MergedNodeSet::to_difflayer: every (owner, path) becomes a backend key
to_diff_nodes(sets) ==
    LET entries == { <<owner, path>> \in
                        UNION { {o} \X (DOMAIN sets[o].nodes) : o \in DOMAIN sets } : TRUE }
        keys == { NodeKey(e[1], e[2]) : e \in entries }
    IN [key \in keys |->
          LET e == CHOOSE x \in entries : NodeKey(x[1], x[2]) = key
          IN sets[e[1]].nodes[e[2]]]

----------------------------------------------------------------------------
(* state-trie/src/trie_committer.rs *)

\* Committer::store
StoredLeaf(set, node, collect_leaf) ==
    IF collect_leaf /\ node.t = "short" /\ node.val.t = "value"
    THEN add_leaf(set, Unwrap(Node_cache(node).hash), node.val.v)
    ELSE set

\* store that hands back the hash without recording the node
store_hash_only(set, tracer, path, node, collect_leaf) ==
    [node |-> IF IsSome(Node_cache(node).hash) THEN HashNode(Unwrap(Node_cache(node).hash))
              ELSE node,
     set |-> set]

\* store that records nothing for a node without a hash
store_embedded_unrecorded(set, tracer, path, node, collect_leaf) ==
    IF ~IsSome(Node_cache(node).hash)
    THEN [node |-> node, set |-> set]
    ELSE [node |-> HashNode(Unwrap(Node_cache(node).hash)),
          set |-> StoredLeaf(add_node(set, path,
                                      TrieNode_new(Node_cache(node).hash,
                                                   Some(node_to_bytes(node)))),
                             node, collect_leaf)]

store(set, tracer, path, node, collect_leaf) ==
    IF ~IsSome(Node_cache(node).hash)
    THEN [node |-> node,
          set |-> IF path \in DOMAIN tracer.access_list
                  THEN add_node(set, path, TrieNode_default) ELSE set]
    ELSE [node |-> HashNode(Unwrap(Node_cache(node).hash)),
          set |-> StoredLeaf(add_node(set, path,
                                      TrieNode_new(Node_cache(node).hash,
                                                   Some(node_to_bytes(node)))),
                             node, collect_leaf)]

\* The orders in which the child tasks of a full node can take the parent's
\* lock to merge: the permutations of its non-Empty children 0..15.
Schedules(full) ==
    LET kids == { i \in 0..15 : full.children[i + 1].t # "empty" }
    IN { sched \in UNION { [1..n -> kids] : n \in {Cardinality(kids)} } :
           \A i, j \in 1..Len(sched) : i # j => sched[i] # sched[j] }

\* The collapsed copy of a short node whose key stays in hex form
CollapsedShort_hex_key(short, val) == [short EXCEPT !.val = val]

\* commit_internal's collapsed copy of a short node: the committed child
\* and the key in compact form
CollapsedShort(short, val) ==
    [short EXCEPT !.val = val, !.key = hex_to_compact(short.key)]

RECURSIVE commit_internal(_, _, _, _, _, _, _)
RECURSIVE commit_children(_, _, _, _, _, _, _)
RECURSIVE SerialChildren(_, _, _, _, _, _)
RECURSIVE ParallelChildren(_, _, _, _, _, _)

\* Committer::commit_internal.  sched is the order in which the child
\* tasks of a parallel commit merge; it is not read when parallel is false.
commit_internal(set, tracer, path, node, parallel, collect_leaf, sched) ==
    LET flags == Node_cache(node)
    IN IF IsSome(flags.hash) /\ ~flags.dirty
       THEN [node |-> HashNode(Unwrap(flags.hash)), set |-> set]
       ELSE CASE node.t = "short" ->
                LET sub == IF node.val.t = "full"
                           THEN commit_internal(set, tracer, path \o node.key, node.val,
                                                FALSE, collect_leaf, <<>>)
                           ELSE [node |-> node.val, set |-> set]
                IN store(sub.set, tracer, path, CollapsedShort(node, sub.node),
                         collect_leaf)
              [] node.t = "full" ->
                LET kids == commit_children(set, tracer, path, node, parallel,
                                            collect_leaf, sched)
                    collapsed == [node EXCEPT !.children = kids.children]
                IN store(kids.set, tracer, path, collapsed, collect_leaf)
              [] OTHER -> [node |-> node, set |-> set]

\* Committer::commit_children before any child is committed: every slot is
\* Empty but a Value in slot 16
NoChildren(full) ==
    [k \in 1..17 |-> IF k = 17 /\ full.children[17].t = "value"
                     THEN full.children[17] ELSE EmptyNode]

\* Committer::commit_children, the serial branch, from child i on
SerialChildren(set, tracer, path, full, collect_leaf, i) ==
    IF i = 16 THEN [children |-> NoChildren(full), set |-> set]
    ELSE IF full.children[i + 1].t = "empty"
    THEN SerialChildren(set, tracer, path, full, collect_leaf, i + 1)
    ELSE LET child == commit_internal(set, tracer, Append(path, i),
                                      full.children[i + 1], FALSE, collect_leaf, <<>>)
             rest == SerialChildren(child.set, tracer, path, full, collect_leaf, i + 1)
         IN [children |-> [rest.children EXCEPT ![i + 1] = child.node],
             set |-> rest.set]

\* Committer::commit_children, the parallel branch: each child is committed
\* into a NodeSet of its own, which its task merges into the parent's while
\* it holds both locks; the tasks merge in the order sched.
ParallelChildren(set, tracer, path, full, collect_leaf, sched) ==
    IF sched = <<>> THEN [children |-> NoChildren(full), set |-> set]
    ELSE LET i == Head(sched)
             child == commit_internal(NodeSet_new(set.owner), tracer, Append(path, i),
                                      full.children[i + 1], FALSE, collect_leaf, <<>>)
             rest == ParallelChildren(Unwrap(merge_set(set, child.set).val), tracer, path,
                                      full, collect_leaf, Tail(sched))
         IN [children |-> [rest.children EXCEPT ![i + 1] = child.node],
             set |-> rest.set]

\* Committer::commit_children
commit_children(set, tracer, path, full, parallel, collect_leaf, sched) ==
    IF parallel THEN ParallelChildren(set, tracer, path, full, collect_leaf, sched)
    ELSE SerialChildren(set, tracer, path, full, collect_leaf, 0)

\* Trie::commit (spec section 4.5): hash, walk the dirty nodes into a
\* NodeSet, then add the tracer's effective deletions.  Returns the root
\* hash and Option<NodeSet>: None when nothing is dirty.
RECURSIVE AddDeleted(_, _)
AddDeleted(set, paths) ==
    IF paths = {} THEN set
    ELSE LET p == CHOOSE x \in paths : TRUE
         IN AddDeleted(add_node(set, p, TrieNode_default), paths \ {p})

\* Trie::commit after the hashing of the root
CommitHashedRoot(t, hashed, collect_leaf, parallel, sched) ==
    IF hashed.t = "empty"
    THEN [hash |-> EMPTY_ROOT_HASH,
          set |-> IF deleted_nodes(t.tracer) = {} THEN None
                  ELSE Some(AddDeleted(NodeSet_new(t.owner), deleted_nodes(t.tracer)))]
    ELSE IF ~Node_cache(hashed).dirty
    THEN [hash |-> RootHash(hashed), set |-> None]
    ELSE [hash |-> RootHash(hashed),
          set |-> Some(AddDeleted(commit_internal(NodeSet_new(t.owner), t.tracer, <<>>,
                                                  hashed, parallel, collect_leaf,
                                                  sched).set,
                                  deleted_nodes(t.tracer)))]

Trie_commit(t, collect_leaf) ==
    CommitHashedRoot(t, HashedNode(t.root), collect_leaf, FALSE, <<>>)

----------------------------------------------------------------------------
(* SpecLayers: diff layers pushed one by one, backend writes, lookups *)

MaxLayers == 2

DLKeys == {"k1", "k2"}

\* The entries a layer can hold for a key: the two deleted forms and a node.
DLNodes ==
    { TrieNode_default,
      TrieNode_new(Some("h0"), Some(<<>>)),
      TrieNode_new(Some("h2"), Some(<<2>>)) }

DLOwners == {<<18>>}

\* The storage roots a layer can hold for an owner.
DLRoots == {EMPTY_ROOT_HASH, keccak256(<<1>>)}

DLLayerSet ==
    UNION { { DiffLayer_new(n, r) : n \in [ks -> DLNodes], r \in [os -> DLRoots] }
            : <<ks, os>> \in (SUBSET DLKeys) \X (SUBSET DLOwners) }

NoLookup == [key |-> "", node |-> None, blob |-> None, backend_read |-> FALSE]

DLInitVars ==
    /\ dl_layers = <<>>
    /\ dl_db = EmptyMap
    /\ dl_res = NoLookup

DLInsertLayer(l) ==
    /\ Len(dl_layers) < MaxLayers
    /\ dl_layers' = DiffLayers_insert_difflayer(dl_layers, l)
    /\ dl_res' = NoLookup
    /\ UNCHANGED <<dl_db, DLOthers>>

DLInsert == \E l \in DLLayerSet : DLInsertLayer(l)

DLBackendPut ==
    \E k \in DLKeys :
        /\ k \notin DOMAIN dl_db
        /\ dl_db' = MapPut(dl_db, k, <<1>>)
        /\ dl_res' = NoLookup
        /\ UNCHANGED <<dl_layers, DLOthers>>

DLLookup ==
    \E k \in DLKeys :
        /\ dl_res' = [key |-> k] @@ ReadNode(Some(dl_layers), dl_db, k)
        /\ UNCHANGED <<dl_layers, dl_db, DLOthers>>

DLNext == DLInsert \/ DLBackendPut \/ DLLookup

----------------------------------------------------------------------------
(* db/pathdb/src/pathdb.rs: the LRU cache in front of RocksDB *)

TRIE_STATE_ROOT_KEY == "state_root"
TRIE_STATE_BLOCK_NUMBER_KEY == "block_number"

\* u64::to_le_bytes / u64::from_le_bytes
RECURSIVE LeBytes(_, _)
LeBytes(n, cnt) ==
    IF cnt = 0 THEN <<>> ELSE <<n % 256>> \o LeBytes(n \div 256, cnt - 1)

to_le_bytes(n) == LeBytes(n, 8)

RECURSIVE from_le_bytes(_)
from_le_bytes(b) ==
    IF Len(b) = 0 THEN 0 ELSE b[1] + 256 * from_le_bytes(Tail(b))

\* B256 values are 32-byte strings; as_slice().to_vec() copies the bytes.
B256_repeat_byte(x) == [i \in 1..32 |-> x]

\* LruMap::peek: no promotion
CachePeek(cache, key) ==
    IF \E i \in 1..Len(cache) : cache[i].k = key
    THEN Some(cache[CHOOSE i \in 1..Len(cache) : cache[i].k = key].v)
    ELSE None

\* LruMap::remove
CacheRemove(cache, key) == SelectSeq(cache, LAMBDA e : e.k # key)

\* LruMap::insert under ByLength(cap): the entry becomes the most recent
\* one and the least recent entry is dropped when the map is over its length.
CacheInsert(cache, cap, key, value) ==
    LET c == Append(CacheRemove(cache, key), [k |-> key, v |-> value])
    IN IF cap = 0 THEN <<>>
       ELSE IF Len(c) > cap THEN Tail(c) ELSE c

\* PathDB::get_raw: the value returned ...
get_raw(cache, db, key) ==
    LET cached_value == CachePeek(cache, key)
    IN IF IsSome(cached_value) THEN Unwrap(cached_value) ELSE db[key]

\* ... and the cache it leaves: a value read from the DB is cached.
get_raw_cache(cache, cap, db, key) ==
    IF IsSome(CachePeek(cache, key)) THEN cache
    ELSE IF IsSome(db[key]) THEN CacheInsert(cache, cap, key, db[key])
    ELSE cache

\* PathDB::exists_raw: the answer ...
exists_raw(cache, db, key) ==
    LET cached_value == CachePeek(cache, key)
    IN IF IsSome(cached_value) THEN IsSome(Unwrap(cached_value))
       ELSE IsSome(db[key])

\* ... and the cache it leaves: existence is cached as Some(vec![]).
exists_raw_cache(cache, cap, db, key) ==
    IF IsSome(CachePeek(cache, key)) THEN cache
    ELSE IF IsSome(db[key]) THEN CacheInsert(cache, cap, key, Some(<<>>))
    ELSE cache

\* PathDB::commit_difflayer, the part under the cache lock: the two markers
\* then every diff node in the map's iteration order.
RECURSIVE CommitCacheNodes(_, _, _, _)
CommitCacheNodes(cache, cap, diff_nodes, order) ==
    IF Len(order) = 0 THEN cache
    ELSE LET key == Head(order)
             node == diff_nodes[key]
             c == IF TrieNode_is_deleted(node) THEN CacheRemove(cache, key)
                  ELSE IF IsSome(node.blob)
                       THEN CacheInsert(cache, cap, key, node.blob)
                       ELSE cache
         IN CommitCacheNodes(c, cap, diff_nodes, Tail(order))

\* A seeded fault: deleted nodes stay in the cache.
RECURSIVE CommitCacheNodesKeepDeleted(_, _, _, _)
CommitCacheNodesKeepDeleted(cache, cap, diff_nodes, order) ==
    IF Len(order) = 0 THEN cache
    ELSE LET key == Head(order)
             node == diff_nodes[key]
             c == IF TrieNode_is_deleted(node) THEN cache
                  ELSE IF IsSome(node.blob)
                       THEN CacheInsert(cache, cap, key, node.blob)
                       ELSE cache
         IN CommitCacheNodesKeepDeleted(c, cap, diff_nodes, Tail(order))

commit_difflayer_cache_keep_deleted(cache, cap, block_number, state_root, difflayer, order) ==
    LET c1 == CacheInsert(cache, cap, TRIE_STATE_ROOT_KEY, Some(state_root))
        c2 == CacheInsert(c1, cap, TRIE_STATE_BLOCK_NUMBER_KEY,
                          Some(to_le_bytes(block_number)))
    IN IF IsSome(difflayer)
       THEN CommitCacheNodesKeepDeleted(c2, cap, Unwrap(difflayer).diff_nodes, order)
       ELSE c2

commit_difflayer_cache(cache, cap, block_number, state_root, difflayer, order) ==
    LET c1 == CacheInsert(cache, cap, TRIE_STATE_ROOT_KEY, Some(state_root))
        c2 == CacheInsert(c1, cap, TRIE_STATE_BLOCK_NUMBER_KEY,
                          Some(to_le_bytes(block_number)))
    IN IF IsSome(difflayer)
       THEN CommitCacheNodes(c2, cap, Unwrap(difflayer).diff_nodes, order)
       ELSE c2

\* The WriteBatch of commit_difflayer applied to the DB (write_opt succeeded).
commit_difflayer_batch(db, block_number, state_root, difflayer) ==
    [key \in DOMAIN db |->
        IF key = TRIE_STATE_ROOT_KEY THEN Some(state_root)
        ELSE IF key = TRIE_STATE_BLOCK_NUMBER_KEY
             THEN Some(to_le_bytes(block_number))
        ELSE IF IsSome(difflayer) /\ key \in DOMAIN Unwrap(difflayer).diff_nodes
             THEN LET node == Unwrap(difflayer).diff_nodes[key]
                  IN IF TrieNode_is_deleted(node) THEN None ELSE node.blob
        ELSE db[key]]

\* PathDB::latest_persist_state: two gets, then the decoding of both values.
latest_persist_state(cache, cap, db) ==
    LET block_number_bytes == get_raw(cache, db, TRIE_STATE_BLOCK_NUMBER_KEY)
        cache1 == get_raw_cache(cache, cap, db, TRIE_STATE_BLOCK_NUMBER_KEY)
        state_root_bytes == get_raw(cache1, db, TRIE_STATE_ROOT_KEY)
    IN IF IsSome(block_number_bytes) /\ IsSome(state_root_bytes)
       THEN IF Len(Unwrap(block_number_bytes)) # 8
               \/ Len(Unwrap(state_root_bytes)) # 32
            THEN Panic
            ELSE Ok(<<from_le_bytes(Unwrap(block_number_bytes)),
                      Unwrap(state_root_bytes)>>)
       ELSE Err

latest_persist_state_cache(cache, cap, db) ==
    get_raw_cache(get_raw_cache(cache, cap, db, TRIE_STATE_BLOCK_NUMBER_KEY),
                  cap, db, TRIE_STATE_ROOT_KEY)

----------------------------------------------------------------------------
(* SpecPathDB: one PathDB instance, its callers and RocksDB write failures *)

CacheSize == 3
MaxBlockNumber == 2

PDBNodeKeys == {"n1", "n2"}
PDBKeys == PDBNodeKeys \cup {TRIE_STATE_ROOT_KEY, TRIE_STATE_BLOCK_NUMBER_KEY}
\* The state root the caller flushes with block number n.
PDBRootOf(n) == B256_repeat_byte(170 + n)
PDBPutValue == <<9>>

PDBBlobNode == TrieNode_new(Some("h7"), Some(<<7>>))

\* The flushed layers: empty, n1 alone in each of its three forms (deleted
\* with no blob, deleted with an empty blob, a node), and two layers that
\* write one key and delete the other.
PDBLayerSet ==
    { DiffLayer_new(EmptyMap, EmptyMap),
      DiffLayer_new([k \in {"n1"} |-> TrieNode_default], EmptyMap),
      DiffLayer_new([k \in {"n1"} |-> TrieNode_new(Some("h0"), Some(<<>>))], EmptyMap),
      DiffLayer_new([k \in {"n1"} |-> PDBBlobNode], EmptyMap),
      DiffLayer_new([k \in PDBNodeKeys |->
                        IF k = "n1" THEN PDBBlobNode ELSE TrieNode_default], EmptyMap),
      DiffLayer_new([k \in PDBNodeKeys |->
                        IF k = "n1" THEN TrieNode_default ELSE PDBBlobNode], EmptyMap) }

\* The iteration orders of a HashMap with key set S.
Orders(S) ==
    { o \in [1..Cardinality(S) -> S] :
        \A i, j \in 1..Cardinality(S) : i # j => o[i] # o[j] }

PDBLast(op, ok, stale) == [op |-> op, ok |-> ok, stale |-> stale]

PDBInitVars ==
    /\ pdb_cache = <<>>
    /\ pdb_db = [k \in PDBKeys |-> None]
    /\ pdb_last = PDBLast("new", TRUE, FALSE)

PDBGet(key) ==
    /\ pdb_cache' = get_raw_cache(pdb_cache, CacheSize, pdb_db, key)
    /\ pdb_last' = PDBLast("get", TRUE, FALSE)
    /\ UNCHANGED <<pdb_db, PDBOthers>>

PDBExists(key) ==
    /\ pdb_cache' = exists_raw_cache(pdb_cache, CacheSize, pdb_db, key)
    /\ pdb_last' = PDBLast("contains", TRUE, FALSE)
    /\ UNCHANGED <<pdb_db, PDBOthers>>

\* A put_raw that leaves its cache entry behind when the DB write fails
PDBPutKeepsEntry(key, fails) ==
    /\ pdb_cache' = CacheInsert(pdb_cache, CacheSize, key, Some(PDBPutValue))
    /\ pdb_db' = IF fails THEN pdb_db ELSE [pdb_db EXCEPT ![key] = Some(PDBPutValue)]
    /\ pdb_last' = PDBLast("insert", ~fails, FALSE)
    /\ UNCHANGED PDBOthers

\* put_raw: cache first, then the DB; the cache entry is removed on error.
PDBPut(key, fails) ==
    /\ IF fails
       THEN /\ pdb_cache' = CacheRemove(
                   CacheInsert(pdb_cache, CacheSize, key, Some(PDBPutValue)), key)
            /\ UNCHANGED pdb_db
       ELSE /\ pdb_cache' = CacheInsert(pdb_cache, CacheSize, key, Some(PDBPutValue))
            /\ pdb_db' = [pdb_db EXCEPT ![key] = Some(PDBPutValue)]
    /\ pdb_last' = PDBLast("insert", ~fails, FALSE)
    /\ UNCHANGED PDBOthers

\* delete_raw: the cache entry goes first, whatever the DB then answers.
PDBDelete(key, fails) ==
    /\ pdb_cache' = CacheRemove(pdb_cache, key)
    /\ pdb_db' = IF fails THEN pdb_db ELSE [pdb_db EXCEPT ![key] = None]
    /\ pdb_last' = PDBLast("remove", ~fails, FALSE)
    /\ UNCHANGED PDBOthers

PDBClearCache ==
    /\ pdb_cache' = <<>>
    /\ pdb_last' = PDBLast("clear_cache", TRUE, FALSE)
    /\ UNCHANGED <<pdb_db, PDBOthers>>

\* The diff layer holds a key whose cached value differs from the layer's.
StaleCached(cache, difflayer) ==
    /\ IsSome(difflayer)
    /\ \E key \in DOMAIN Unwrap(difflayer).diff_nodes :
          /\ IsSome(CachePeek(cache, key))
          /\ Unwrap(CachePeek(cache, key)) # Unwrap(difflayer).diff_nodes[key].blob

\* commit_difflayer: the cache is updated under its lock, the lock is
\* released, and the batch is written; a failed write returns the error.
PDBCommitDifflayer(block_number, state_root, difflayer, order, fails) ==
    /\ pdb_cache' = commit_difflayer_cache(pdb_cache, CacheSize, block_number,
                                           state_root, difflayer, order)
    /\ pdb_db' = IF fails THEN pdb_db
                 ELSE commit_difflayer_batch(pdb_db, block_number, state_root, difflayer)
    /\ pdb_last' = PDBLast("commit_difflayer", ~fails, StaleCached(pdb_cache, difflayer))
    /\ UNCHANGED PDBOthers

PDBLatestPersistState ==
    /\ pdb_cache' = latest_persist_state_cache(pdb_cache, CacheSize, pdb_db)
    /\ pdb_last' = PDBLast("latest_persist_state",
                           latest_persist_state(pdb_cache, CacheSize, pdb_db).st = "Ok",
                           FALSE)
    /\ UNCHANGED <<pdb_db, PDBOthers>>

PDBDifflayerInputs == {None} \cup { Some(l) : l \in PDBLayerSet }

PDBOrdersOf(difflayer) ==
    IF IsSome(difflayer) THEN Orders(DOMAIN Unwrap(difflayer).diff_nodes)
    ELSE {<<>>}

PDBCommit ==
    \E block_number \in 1..MaxBlockNumber,
       difflayer \in PDBDifflayerInputs, fails \in BOOLEAN :
        \E order \in PDBOrdersOf(difflayer) :
            PDBCommitDifflayer(block_number, PDBRootOf(block_number),
                               difflayer, order, fails)

PDBNext ==
    \/ \E key \in PDBKeys : PDBGet(key)
    \/ \E key \in PDBKeys : PDBExists(key)
    \/ \E key \in PDBNodeKeys, fails \in BOOLEAN : PDBPut(key, fails)
    \/ \E key \in PDBNodeKeys, fails \in BOOLEAN : PDBDelete(key, fails)
    \/ PDBClearCache
    \/ PDBCommit
    \/ PDBLatestPersistState

----------------------------------------------------------------------------
(* db/memorydb/src/memorydb.rs *)

\* MemoryDBBatch::insert / delete: an operation queued for the same key is
\* replaced in place, otherwise the operation is pushed.
BatchSet(operations, key, value) ==
    IF \E pos \in 1..Len(operations) : operations[pos].key = key
    THEN LET pos == CHOOSE p \in 1..Len(operations) :
                      /\ operations[p].key = key
                      /\ \A q \in 1..(p - 1) : operations[q].key # key
         IN [operations EXCEPT ![pos] = [key |-> key, value |-> value]]
    ELSE Append(operations, [key |-> key, value |-> value])

MemoryDBBatch_insert(operations, key, value) == BatchSet(operations, key, Some(value))

MemoryDBBatch_delete(operations, key) == BatchSet(operations, key, None)

\* One iteration of the loop of MemoryDB::apply_batch.
ApplyOp(nodes, op) ==
    IF IsSome(op.value) THEN MapPut(nodes, op.key, Unwrap(op.value))
    ELSE MapRemove(nodes, op.key)

\* A seeded fault: the write guard is taken and dropped per operation.
apply_batch_lock_per_op(pc, operations) == "free"

\* The RwLock while apply_batch runs its loop: the write guard taken before
\* the loop lives until the function returns.
apply_batch_lock(pc, operations) == "write"

\* MemoryDB::apply_batch as a whole.
RECURSIVE apply_batch(_, _)
apply_batch(nodes, operations) ==
    IF Len(operations) = 0 THEN nodes
    ELSE apply_batch(ApplyOp(nodes, Head(operations)), Tail(operations))

----------------------------------------------------------------------------
(* SpecMemDB: a batch writer and a reader thread on one MemoryDB *)

MaxBatchOps == 2

MDBKeys == {"a", "b"}
MDBValues == {<<1>>, <<2>>}

NoRead == [key |-> "", val |-> None, atomic |-> TRUE, waited |-> FALSE]

MDBInitVars ==
    /\ mdb_nodes = EmptyMap
    /\ mdb_lock = "free"
    /\ mdb_batch = <<>>
    /\ mdb_ops = <<>>
    /\ mdb_pc = 0
    /\ mdb_pre = EmptyMap
    /\ mdb_reader = [st |-> "idle", key |-> "", waited |-> FALSE]
    /\ mdb_seen = NoRead

\* The writer is not inside batch_commit.
MDBWriterIdle == mdb_pc = 0

\* batch.insert(key, value): only the batch changes.
MDBBatchInsert ==
    \E key \in MDBKeys, value \in MDBValues :
        /\ MDBWriterIdle
        /\ Len(MemoryDBBatch_insert(mdb_batch, key, value)) <= MaxBatchOps
        /\ mdb_batch' = MemoryDBBatch_insert(mdb_batch, key, value)
        /\ UNCHANGED <<mdb_nodes, mdb_lock, mdb_ops, mdb_pc, mdb_pre,
                       mdb_reader, mdb_seen, MDBOthers>>

MDBBatchDelete ==
    \E key \in MDBKeys :
        /\ MDBWriterIdle
        /\ Len(MemoryDBBatch_delete(mdb_batch, key)) <= MaxBatchOps
        /\ mdb_batch' = MemoryDBBatch_delete(mdb_batch, key)
        /\ UNCHANGED <<mdb_nodes, mdb_lock, mdb_ops, mdb_pc, mdb_pre,
                       mdb_reader, mdb_seen, MDBOthers>>

\* batch_commit -> apply_batch: self.nodes.write() is acquired.
MDBCommitBegin ==
    /\ MDBWriterIdle
    /\ mdb_lock = "free"
    /\ mdb_lock' = "write"
    /\ mdb_ops' = mdb_batch
    /\ mdb_batch' = <<>>
    /\ mdb_pc' = 1
    /\ mdb_pre' = mdb_nodes
    /\ UNCHANGED <<mdb_nodes, mdb_reader, mdb_seen, MDBOthers>>

\* one operation of the loop
MDBCommitStep ==
    /\ mdb_pc >= 1
    /\ mdb_pc <= Len(mdb_ops)
    /\ mdb_nodes' = ApplyOp(mdb_nodes, mdb_ops[mdb_pc])
    /\ mdb_pc' = mdb_pc + 1
    /\ mdb_lock' = IF mdb_pc < Len(mdb_ops)
                   THEN apply_batch_lock(mdb_pc, mdb_ops) ELSE "write"
    /\ UNCHANGED <<mdb_batch, mdb_ops, mdb_pre, mdb_reader, mdb_seen, MDBOthers>>

\* the loop is over: Ok(()) is returned and the guard dropped
MDBCommitEnd ==
    /\ mdb_pc = Len(mdb_ops) + 1
    /\ mdb_lock' = "free"
    /\ mdb_pc' = 0
    /\ mdb_pre' = apply_batch(mdb_pre, mdb_ops)
    /\ mdb_ops' = <<>>
    /\ UNCHANGED <<mdb_nodes, mdb_batch, mdb_reader, mdb_seen, MDBOthers>>

\* TrieDatabase::insert, outside any batch
MDBInsert ==
    \E key \in MDBKeys, value \in MDBValues :
        /\ MDBWriterIdle
        /\ mdb_lock = "free"
        /\ mdb_nodes' = MapPut(mdb_nodes, key, value)
        /\ mdb_pre' = mdb_nodes'
        /\ UNCHANGED <<mdb_lock, mdb_batch, mdb_ops, mdb_pc, mdb_reader,
                       mdb_seen, MDBOthers>>

\* The reader calls get(key) ...
MDBGetCall ==
    \E key \in MDBKeys :
        /\ mdb_reader.st = "idle"
        /\ mdb_reader' = [st |-> "get", key |-> key, waited |-> mdb_pc > 0]
        /\ UNCHANGED <<mdb_nodes, mdb_lock, mdb_batch, mdb_ops, mdb_pc,
                       mdb_pre, mdb_seen, MDBOthers>>

\* ... and self.nodes.read() lets it in once no write guard is held.  The
\* map it reads from is compared with the map before and after the batch.
MDBGetRead ==
    /\ mdb_reader.st = "get"
    /\ mdb_lock # "write"
    /\ mdb_seen' = [key |-> mdb_reader.key,
                    val |-> MapGet(mdb_nodes, mdb_reader.key),
                    atomic |-> mdb_nodes \in {mdb_pre, apply_batch(mdb_pre, mdb_ops)},
                    waited |-> mdb_reader.waited]
    /\ mdb_reader' = [st |-> "idle", key |-> "", waited |-> FALSE]
    /\ UNCHANGED <<mdb_nodes, mdb_lock, mdb_batch, mdb_ops, mdb_pc, mdb_pre,
                   MDBOthers>>

MDBNext ==
    \/ MDBBatchInsert
    \/ MDBBatchDelete
    \/ MDBCommitBegin
    \/ MDBCommitStep
    \/ MDBCommitEnd
    \/ MDBInsert
    \/ MDBGetCall
    \/ MDBGetRead

----------------------------------------------------------------------------
(* state-trie/src/state_trie.rs: the typed wrappers over one trie.  Each   *)
(* returns the trie after the call (resolved nodes stay loaded) and the    *)
(* call's Result.                                                          *)

StateTrie_new(state_root, owner, difflayer) == Trie_new(state_root, owner, difflayer)

\* rlp_raw::split on a stored storage value: the content of the RLP string
rlp_split_content(enc) == IF enc[1] >= 128 THEN Drop(enc, 1) ELSE enc

\* StateAccount::decode of what trie.get returned
DecodeAccount(g) ==
    [trie |-> g.trie,
     res |-> IF g.res.st # "Ok" THEN Err
             ELSE IF ~IsSome(Unwrap(g.res.val)) THEN Ok(None)
             ELSE IF StateAccount_from_rlp(Unwrap(Unwrap(g.res.val))).st = "Ok"
             THEN Ok(StateAccount_from_rlp(Unwrap(Unwrap(g.res.val))).val)
             ELSE Err]

\* get_account_with_hash_state that finds nothing
StateTrie_get_account_absent(trie, db, hashed_address) ==
    [trie |-> trie, res |-> Ok(None)]

StateTrie_get_account_with_hash_state(trie, db, hashed_address) ==
    DecodeAccount(Trie_get(trie, db, hashed_address))

StateTrie_update_account_with_hash_state(trie, db, hashed_address, account) ==
    Trie_update(trie, db, hashed_address, StateAccount_to_rlp(account))

\* delete_account_with_hash_state that leaves the trie alone
StateTrie_delete_account_kept(trie, db, hashed_address) ==
    [trie |-> trie, res |-> Ok(<<>>)]

StateTrie_delete_account_with_hash_state(trie, db, hashed_address) ==
    Trie_delete(trie, db, hashed_address)

\* The content of what trie.get returned for a storage key
DecodeStorage(g) ==
    [trie |-> g.trie,
     res |-> IF g.res.st # "Ok" THEN Err
             ELSE IF ~IsSome(Unwrap(g.res.val)) THEN Ok(None)
             ELSE IF Len(Unwrap(Unwrap(g.res.val))) = 0 THEN Ok(None)
             ELSE Ok(Some(rlp_split_content(Unwrap(Unwrap(g.res.val)))))]

StateTrie_get_storage_with_hash_state(trie, db, hashed_key) ==
    DecodeStorage(Trie_get(trie, db, hashed_key))

StateTrie_update_storage_u256_with_hash_state(trie, db, hashed_key, value) ==
    Trie_update(trie, db, hashed_key, rlp_encode_u256(value))

StateTrie_delete_storage_with_hash_state(trie, db, hashed_key) ==
    Trie_delete(trie, db, hashed_key)

\* StateTrie::hash: the root hash and the trie with its hashes cached
HashedTrie(trie, hashed_root) ==
    [trie |-> [trie EXCEPT !.root = hashed_root], hash |-> RootHash(hashed_root)]

StateTrie_hash(trie) == HashedTrie(trie, HashedNode(trie.root))

----------------------------------------------------------------------------
(* triedb/src/triedb.rs, triedb_basic.rs, triedb_reth.rs, triedb_disk.rs:  *)
(* the driver.  A driver is the record of its fields; the backend is the   *)
(* node map db and the flat storage-root table flat.  Every operation      *)
(* returns the driver after the call and the call's Result.                *)

TrieDB_new ==
    [root_hash |-> EMPTY_ROOT_HASH,
     account_trie |-> None,
     storage_tries |-> EmptyMap,
     accounts_with_storage_trie |-> EmptyMap,
     updated_storage_roots |-> EmptyMap,
     difflayer |-> None]

\* TrieDB::state_at
state_at(tdb, root_hash, difflayer) ==
    [tdb EXCEPT !.account_trie = Some(StateTrie_new(root_hash, B256_ZERO, difflayer)),
                !.root_hash = root_hash,
                !.difflayer = difflayer,
                !.storage_tries = EmptyMap,
                !.accounts_with_storage_trie = EmptyMap]

\* The part of reset that the spec (section 4.8) adds to clean: the updated
\* storage roots are cleared with the rest of the state.
reset_updated_storage_roots(updated_storage_roots) == EmptyMap

\* TrieDB::clean
clean(tdb) ==
    [tdb EXCEPT !.root_hash = EMPTY_ROOT_HASH,
                !.account_trie = None,
                !.storage_tries = EmptyMap,
                !.accounts_with_storage_trie = EmptyMap,
                !.updated_storage_roots = reset_updated_storage_roots(@),
                !.difflayer = None]

\* self.account_trie.as_mut().unwrap().<call>: the account trie after the
\* call and the call's Result
OnAccountTrie(tdb, called) ==
    [tdb |-> [tdb EXCEPT !.account_trie = Some(called.trie)], res |-> called.res]

\* TrieDB::get_account_with_hash_state: account_trie.unwrap() panics before
\* state_at
TrieDB_get_account_with_hash_state(tdb, db, hashed_address) ==
    IF ~IsSome(tdb.account_trie) THEN [tdb |-> tdb, res |-> Panic]
    ELSE OnAccountTrie(tdb, StateTrie_get_account_with_hash_state(
                                Unwrap(tdb.account_trie), db, hashed_address))

TrieDB_update_account_with_hash_state(tdb, db, hashed_address, account) ==
    IF ~IsSome(tdb.account_trie) THEN [tdb |-> tdb, res |-> Panic]
    ELSE OnAccountTrie(tdb, StateTrie_update_account_with_hash_state(
                                Unwrap(tdb.account_trie), db, hashed_address, account))

\* A variant of delete_account that also drops the account's entry of
\* accounts_with_storage_trie
TrieDB_delete_account_and_entry(tdb, db, hashed_address) ==
    [tdb |-> [tdb EXCEPT !.accounts_with_storage_trie = MapRemove(@, hashed_address)],
     res |-> Ok(<<>>)]

TrieDB_delete_account_with_hash_state(tdb, db, hashed_address) ==
    IF ~IsSome(tdb.account_trie) THEN [tdb |-> tdb, res |-> Panic]
    ELSE OnAccountTrie(tdb, StateTrie_delete_account_with_hash_state(
                                Unwrap(tdb.account_trie), db, hashed_address))

\* get_storage_root_with_hash_state after its read of the account
RememberAccount(hashed_address, g) ==
    IF g.res.st # "Ok" THEN g
    ELSE [tdb |-> [g.tdb EXCEPT !.accounts_with_storage_trie =
                      MapPut(@, hashed_address,
                             IF IsSome(Unwrap(g.res.val)) THEN Unwrap(Unwrap(g.res.val))
                             ELSE StateAccount_default)],
          res |-> Ok(IF IsSome(Unwrap(g.res.val))
                     THEN Unwrap(Unwrap(g.res.val)).storage_root
                     ELSE EMPTY_ROOT_HASH)]

\* TrieDB::get_storage_root_with_hash_state
get_storage_root_with_hash_state(tdb, db, hashed_address) ==
    RememberAccount(hashed_address,
                    TrieDB_get_account_with_hash_state(tdb, db, hashed_address))

\* get_storage_trie_with_hash_state after the storage root is known
BuildStorageTrie(hashed_address, r) ==
    IF r.res.st # "Ok" THEN r
    ELSE [tdb |-> [r.tdb EXCEPT !.storage_tries =
                      MapPut(@, hashed_address,
                             StateTrie_new(Unwrap(r.res.val), hashed_address,
                                           r.tdb.difflayer))],
          res |-> Ok(StateTrie_new(Unwrap(r.res.val), hashed_address, r.tdb.difflayer))]

\* TrieDB::get_storage_trie_with_hash_state
get_storage_trie_with_hash_state(tdb, db, hashed_address) ==
    IF hashed_address \in DOMAIN tdb.storage_tries
    THEN [tdb |-> tdb, res |-> Ok(tdb.storage_tries[hashed_address])]
    ELSE BuildStorageTrie(hashed_address,
                          get_storage_root_with_hash_state(tdb, db, hashed_address))

\* get_storage_with_hash_state after the storage trie is there: the read
\* runs on a clone of the cached storage trie
ReadStorageTrie(db, hashed_key, t) ==
    IF t.res.st # "Ok" THEN t
    ELSE [tdb |-> t.tdb,
          res |-> StateTrie_get_storage_with_hash_state(Unwrap(t.res.val), db,
                                                        hashed_key).res]

\* TrieDB::get_storage_with_hash_state
TrieDB_get_storage_with_hash_state(tdb, db, hashed_address, hashed_key) ==
    ReadStorageTrie(db, hashed_key,
                    get_storage_trie_with_hash_state(tdb, db, hashed_address))

\* Case (iv) of get_storage_root after its read of the account
AccountStorageRoot(g) ==
    IF g.res.st # "Ok" THEN g
    ELSE [tdb |-> g.tdb,
          res |-> Ok(Some(IF IsSome(Unwrap(g.res.val))
                          THEN Unwrap(Unwrap(g.res.val)).storage_root
                          ELSE EMPTY_ROOT_HASH))]

\* TrieDB::get_storage_root (spec section 4.8.a): the first hit of (i) the
\* updated storage roots, (ii) the diff layers, (iii) the backend's flat
\* table, (iv) the account in the account trie; EMPTY_ROOT without account.
get_storage_root(tdb, db, flat, hashed_address) ==
    IF hashed_address \in DOMAIN tdb.updated_storage_roots
    THEN [tdb |-> tdb, res |-> Ok(Some(tdb.updated_storage_roots[hashed_address]))]
    ELSE IF IsSome(tdb.difflayer)
            /\ IsSome(DiffLayers_get_storage_root(Unwrap(tdb.difflayer), hashed_address))
    THEN [tdb |-> tdb,
          res |-> Ok(DiffLayers_get_storage_root(Unwrap(tdb.difflayer), hashed_address))]
    ELSE IF hashed_address \in DOMAIN flat
    THEN [tdb |-> tdb, res |-> Ok(Some(flat[hashed_address]))]
    ELSE AccountStorageRoot(TrieDB_get_account_with_hash_state(tdb, db, hashed_address))
\* A seeded fault: the account keeps the storage root it had.
with_storage_root_kept(account, storage_hash) == account

\* calculate_hash, line 116: the storage hash goes into the account
with_storage_root(account, storage_hash) ==
    [account EXCEPT !.storage_root = storage_hash]

\* The loop of TrieDB::calculate_hash over the storage hashes: acc is the
\* driver and the Result so far, an error ends the loop (the ? of line 118)
RECURSIVE InstallStorageHashes(_, _, _, _)
InstallStorageHashes(acc, db, storage_hashes, todo) ==
    IF acc.res.st # "Ok" \/ todo = {} THEN acc
    ELSE IF (CHOOSE h \in todo : TRUE) \notin DOMAIN acc.tdb.accounts_with_storage_trie
    THEN [tdb |-> acc.tdb, res |-> Panic]
    ELSE InstallStorageHashes(
             TrieDB_update_account_with_hash_state(
                 [acc.tdb EXCEPT !.updated_storage_roots =
                     MapPut(@, CHOOSE h \in todo : TRUE,
                            storage_hashes[CHOOSE h \in todo : TRUE])],
                 db, CHOOSE h \in todo : TRUE,
                 with_storage_root(
                     acc.tdb.accounts_with_storage_trie[CHOOSE h \in todo : TRUE],
                     storage_hashes[CHOOSE h \in todo : TRUE])),
             db, storage_hashes, todo \ {CHOOSE h \in todo : TRUE})

\* calculate_hash, lines 120-124: the hashed storage tries are kept and the
\* account trie is hashed
HashAccountTrie(installed, hashed, account_hash) ==
    [tdb |-> [installed.tdb EXCEPT
                !.storage_tries = [h \in DOMAIN hashed |-> hashed[h].trie],
                !.account_trie = Some(account_hash.trie)],
     res |-> Ok(account_hash.hash)]

\* calculate_hash, lines 114-124, after the loop over the storage hashes
HashInstalled(installed, hashed) ==
    IF installed.res.st # "Ok" THEN installed
    ELSE IF ~IsSome(installed.tdb.account_trie) THEN [tdb |-> installed.tdb, res |-> Panic]
    ELSE HashAccountTrie(installed, hashed,
                         StateTrie_hash(Unwrap(installed.tdb.account_trie)))

\* calculate_hash, lines 114-119, over the hashed clones of the storage tries
InstallHashed(tdb, db, hashed) ==
    HashInstalled(InstallStorageHashes([tdb |-> tdb, res |-> Ok(<<>>)], db,
                                       [h \in DOMAIN hashed |-> hashed[h].hash],
                                       DOMAIN hashed),
                  hashed)

\* TrieDB::calculate_hash
calculate_hash(tdb, db) ==
    InstallHashed(tdb, db,
                  [h \in DOMAIN tdb.storage_tries |-> StateTrie_hash(tdb.storage_tries[h])])

\* The merge loop of TrieDB::commit over the storage node sets: merged is
\* the Result so far, an error ends the loop
RECURSIVE MergeStorageSets(_, _, _)
MergeStorageSets(merged, node_sets, todo) ==
    IF merged.st # "Ok" \/ todo = {} THEN merged
    ELSE IF ~IsSome(node_sets[CHOOSE x \in todo : TRUE])
    THEN MergeStorageSets(merged, node_sets, todo \ {CHOOSE x \in todo : TRUE})
    ELSE MergeStorageSets(
             MergedNodeSet_merge(Unwrap(merged.val),
                                 Unwrap(node_sets[CHOOSE x \in todo : TRUE])),
             node_sets, todo \ {CHOOSE x \in todo : TRUE})

\* commit, lines 147-152: the account trie's node set goes in first
MergeAccountSet(account_node_set) ==
    IF IsSome(account_node_set)
    THEN MergedNodeSet_merge(MergedNodeSet_new, Unwrap(account_node_set))
    ELSE Ok(MergedNodeSet_new)

\* commit, lines 161-162: the root hash and the merged node sets
CommitResult(h, merged) ==
    [tdb |-> h.tdb,
     res |-> IF merged.st # "Ok" THEN merged
             ELSE Ok([root_hash |-> Unwrap(h.res.val), node_set |-> Unwrap(merged.val)])]

\* commit, lines 131-162, after calculate_hash
CommitHashed(h) ==
    IF h.res.st # "Ok" THEN h
    ELSE CommitResult(h,
             MergeStorageSets(
                 MergeAccountSet(Trie_commit(Unwrap(h.tdb.account_trie), TRUE).set),
                 [o \in DOMAIN h.tdb.storage_tries |->
                     Trie_commit(h.tdb.storage_tries[o], FALSE).set],
                 DOMAIN h.tdb.storage_tries))

\* TrieDB::commit: the hashes, then the commit of clones of the account
\* trie and of every storage trie, merged into one MergedNodeSet.
commit(tdb, db, collect_leaf) == CommitHashed(calculate_hash(tdb, db))

\* batch_update_and_commit, lines 219-234: the account to write, with the
\* stored storage root when the lookup gave one
final_account(new_account, storage_root) ==
    IF IsSome(storage_root)
    THEN [new_account EXCEPT !.storage_root = Unwrap(storage_root)]
    ELSE new_account

\* batch_update_and_commit, line 214 and line 220: the owner's entry in the
\* updated storage roots is set to KECCAK_EMPTY
MarkEmptied(tdb, hashed_address) ==
    [tdb EXCEPT !.updated_storage_roots = MapPut(@, hashed_address, KECCAK_EMPTY)]

\* batch_update_and_commit, lines 219-227: the stored storage root of an
\* account that is written, None for an account that is rebuilt
LookupStorageRoot(tdb, db, flat, states_rebuild, hashed_address) ==
    IF hashed_address \in states_rebuild
    THEN [tdb |-> MarkEmptied(tdb, hashed_address), res |-> Ok(None)]
    ELSE get_storage_root(tdb, db, flat, hashed_address)

\* batch_update_and_commit, step 2 for one account entry; acc holds the
\* driver, the Result and the two maps built so far
PrepareAccount(acc, looked, states, storage_states, hashed_address) ==
    IF ~IsSome(states[hashed_address])
    THEN [acc EXCEPT !.tdb = MarkEmptied(acc.tdb, hashed_address),
                     !.update_accounts = MapPut(@, hashed_address, None)]
    ELSE IF looked.res.st # "Ok"
    THEN [acc EXCEPT !.tdb = looked.tdb, !.res = looked.res]
    ELSE IF hashed_address \in DOMAIN storage_states
    THEN [acc EXCEPT !.tdb = looked.tdb,
                     !.update_accounts_with_storage =
                         MapPut(@, hashed_address,
                                final_account(Unwrap(states[hashed_address]),
                                              Unwrap(looked.res.val)))]
    ELSE [acc EXCEPT !.tdb = looked.tdb,
                     !.update_accounts =
                         MapPut(@, hashed_address,
                                Some(final_account(Unwrap(states[hashed_address]),
                                                   Unwrap(looked.res.val))))]

\* batch_update_and_commit, step 2: the loop over the account entries
RECURSIVE PrepareAccounts(_, _, _, _, _, _, _)
PrepareAccounts(acc, db, flat, states, states_rebuild, storage_states, todo) ==
    IF acc.res.st # "Ok" \/ todo = {} THEN acc
    ELSE PrepareAccounts(
             PrepareAccount(acc,
                            IF IsSome(states[CHOOSE h \in todo : TRUE])
                            THEN LookupStorageRoot(acc.tdb, db, flat, states_rebuild,
                                                   CHOOSE h \in todo : TRUE)
                            ELSE [tdb |-> acc.tdb, res |-> Ok(None)],
                            states, storage_states, CHOOSE h \in todo : TRUE),
             db, flat, states, states_rebuild, storage_states,
             todo \ {CHOOSE h \in todo : TRUE})

\* Task 1, first loop: the accounts being rebuilt are deleted; an error is
\* the unwrap's panic
RECURSIVE DeleteRebuilt(_, _, _)
DeleteRebuilt(acc, db, todo) ==
    IF acc.res.st # "Ok" THEN [tdb |-> acc.tdb, res |-> Panic]
    ELSE IF todo = {} THEN acc
    ELSE DeleteRebuilt(TrieDB_delete_account_with_hash_state(
                           acc.tdb, db, CHOOSE x \in todo : TRUE),
                       db, todo \ {CHOOSE x \in todo : TRUE})

\* Task 1, second loop: the accounts without storage changes are written
RECURSIVE UpdateAccounts(_, _, _, _)
UpdateAccounts(acc, db, update_accounts, todo) ==
    IF acc.res.st # "Ok" THEN [tdb |-> acc.tdb, res |-> Panic]
    ELSE IF todo = {} THEN acc
    ELSE UpdateAccounts(
             IF IsSome(update_accounts[CHOOSE x \in todo : TRUE])
             THEN TrieDB_update_account_with_hash_state(
                      acc.tdb, db, CHOOSE x \in todo : TRUE,
                      Unwrap(update_accounts[CHOOSE x \in todo : TRUE]))
             ELSE TrieDB_delete_account_with_hash_state(
                      acc.tdb, db, CHOOSE x \in todo : TRUE),
             db, update_accounts, todo \ {CHOOSE x \in todo : TRUE})

\* Task 2, the loop over the key-values of one owner
RECURSIVE UpdateStorage(_, _, _, _)
UpdateStorage(acc, db, kvs, todo) ==
    IF acc.res.st # "Ok" THEN [trie |-> acc.trie, res |-> Panic]
    ELSE IF todo = {} THEN acc
    ELSE UpdateStorage(
             IF IsSome(kvs[CHOOSE k \in todo : TRUE])
             THEN StateTrie_update_storage_u256_with_hash_state(
                      acc.trie, db, CHOOSE k \in todo : TRUE,
                      Unwrap(kvs[CHOOSE k \in todo : TRUE]))
             ELSE StateTrie_delete_storage_with_hash_state(
                      acc.trie, db, CHOOSE k \in todo : TRUE),
             db, kvs, todo \ {CHOOSE k \in todo : TRUE})

\* Task 2 for one owner: the storage trie is built at the storage root of
\* the owner's entry in update_accounts_with_storage
StorageTask(difflayer, db, update_accounts_with_storage, hashed_address, kvs) ==
    IF hashed_address \notin DOMAIN update_accounts_with_storage
    THEN [trie |-> StateTrie_new(EMPTY_ROOT_HASH, hashed_address, difflayer), res |-> Panic]
    ELSE UpdateStorage(
             [trie |-> StateTrie_new(
                           update_accounts_with_storage[hashed_address].storage_root,
                           hashed_address, difflayer),
              res |-> Ok(<<>>)],
             db, kvs, DOMAIN kvs)

\* batch_update_and_commit, steps 5-6: the outputs, then the reset
BatchCommitted(committed) ==
    IF committed.res.st # "Ok" THEN committed
    ELSE [tdb |-> clean(committed.tdb),
          res |-> Ok([root_hash |-> Unwrap(committed.res.val).root_hash,
                      node_set |-> Unwrap(committed.res.val).node_set,
                      diff_storage_roots |-> committed.tdb.updated_storage_roots])]

\* batch_update_and_commit, steps 4-5: the storage tries of Task 2 go into
\* the driver that Task 1 left, then the commit
BatchUpdated(db, task1, task2) ==
    IF task1.res.st # "Ok" \/ \E h \in DOMAIN task2 : task2[h].res.st # "Ok"
    THEN [tdb |-> task1.tdb, res |-> Panic]
    ELSE BatchCommitted(
             commit([task1.tdb EXCEPT !.storage_tries =
                                         [h \in DOMAIN task2 |-> task2[h].trie]],
                    db, TRUE))

\* batch_update_and_commit, steps 3-4 after the account entries are prepared
BatchPrepared(db, states_rebuild, storage_states, prepared) ==
    IF prepared.res.st # "Ok" THEN [tdb |-> prepared.tdb, res |-> prepared.res]
    ELSE BatchUpdated(
             db,
             UpdateAccounts(
                 DeleteRebuilt(
                     [tdb |-> [prepared.tdb EXCEPT !.accounts_with_storage_trie =
                                  prepared.update_accounts_with_storage],
                      res |-> Ok(<<>>)],
                     db, states_rebuild),
                 db, prepared.update_accounts, DOMAIN prepared.update_accounts),
             [h \in DOMAIN storage_states |->
                 StorageTask(prepared.tdb.difflayer, db,
                             prepared.update_accounts_with_storage, h, storage_states[h])])

\* TrieDB::batch_update_and_commit
batch_update_and_commit(tdb, db, flat, root_hash, difflayer, states, states_rebuild, storage_states) ==
    BatchPrepared(db, states_rebuild, storage_states,
                  PrepareAccounts([tdb |-> state_at(tdb, root_hash, difflayer),
                                   res |-> Ok(<<>>),
                                   update_accounts |-> EmptyMap,
                                   update_accounts_with_storage |-> EmptyMap],
                                  db, flat, states, states_rebuild, storage_states,
                                  DOMAIN states))

\* A 32-byte word is one symbolic hash: as_slice and from_slice
B256_as_slice(hash) == <<hash>>
B256_from_slice(bytes) == bytes[1]

\* triedb.rs, update_and_commit: the driver of triedb.rs keeps the storage
\* roots it wrote in storage_root_cache, an LRU map of 500_000_000 entries
\* shared by the clones of the driver (Arc) and keyed by the address bytes.
\* cache is that map: address bytes -> Option<root bytes>.

\* update_and_commit, lines 667-692: the account to write
uac_final_account(new_account, rebuilt, cached_storage_root, old_account) ==
    IF rebuilt THEN new_account
    ELSE IF IsSome(cached_storage_root)
    THEN [new_account EXCEPT
            !.storage_root = B256_from_slice(Unwrap(Unwrap(cached_storage_root)))]
    ELSE IF IsSome(old_account)
    THEN [Unwrap(old_account) EXCEPT !.nonce = new_account.nonce,
                                     !.balance = new_account.balance,
                                     !.code_hash = new_account.code_hash]
    ELSE new_account

\* update_and_commit, lines 695-702 for one written account
UacPrepared(acc, tdb, storage_states, hashed_address, account) ==
    [acc EXCEPT
       !.tdb = tdb,
       !.cache = MapPut(@, B256_as_slice(hashed_address),
                        Some(B256_as_slice(account.storage_root))),
       !.update_accounts_with_storage =
           IF hashed_address \in DOMAIN storage_states
           THEN MapPut(@, hashed_address, account) ELSE @,
       !.update_accounts =
           IF hashed_address \in DOMAIN storage_states
           THEN @ ELSE MapPut(@, hashed_address, Some(account))]

\* update_and_commit, step 2 for one account entry; old is the read of the
\* account in the trie, made when the owner is neither rebuilt nor cached
UacPrepareAccount(acc, old, states, states_rebuild, storage_states, hashed_address) ==
    IF ~IsSome(states[hashed_address])
    THEN [acc EXCEPT !.cache = MapPut(@, B256_as_slice(hashed_address),
                                      Some(B256_as_slice(KECCAK_EMPTY))),
                     !.update_accounts = MapPut(@, hashed_address, None)]
    ELSE IF hashed_address \in states_rebuild
            \/ B256_as_slice(hashed_address) \in DOMAIN acc.cache
    THEN UacPrepared(acc, acc.tdb, storage_states, hashed_address,
                     uac_final_account(Unwrap(states[hashed_address]),
                                       hashed_address \in states_rebuild,
                                       MapGet(acc.cache, B256_as_slice(hashed_address)),
                                       None))
    ELSE IF old.res.st # "Ok"
    THEN [acc EXCEPT !.tdb = old.tdb, !.res = old.res]
    ELSE UacPrepared(acc, old.tdb, storage_states, hashed_address,
                     uac_final_account(Unwrap(states[hashed_address]), FALSE, None,
                                       Unwrap(old.res.val)))

\* update_and_commit, step 2: the loop over the account entries
RECURSIVE UacPrepareAccounts(_, _, _, _, _, _)
UacPrepareAccounts(acc, db, states, states_rebuild, storage_states, todo) ==
    IF acc.res.st # "Ok" \/ todo = {} THEN acc
    ELSE UacPrepareAccounts(
             UacPrepareAccount(acc,
                               TrieDB_get_account_with_hash_state(
                                   acc.tdb, db, CHOOSE h \in todo : TRUE),
                               states, states_rebuild, storage_states,
                               CHOOSE h \in todo : TRUE),
             db, states, states_rebuild, storage_states,
             todo \ {CHOOSE h \in todo : TRUE})

\* calculate_hash of triedb.rs, line 283: every storage hash that
\* calculate_hash installed in an account went into the cache
UacCached(cache, storage_hashes) ==
    [k \in (DOMAIN cache) \cup { B256_as_slice(h) : h \in DOMAIN storage_hashes } |->
        IF \E h \in DOMAIN storage_hashes : B256_as_slice(h) = k
        THEN Some(B256_as_slice(storage_hashes[B256_from_slice(k)]))
        ELSE cache[k]]

\* update_and_commit, step 5: commit(true), then clean; the node sets are
\* returned without storage roots
UacCommitted(cache, committed) ==
    [tdb |-> clean(committed.tdb),
     cache |-> UacCached(cache, committed.tdb.updated_storage_roots),
     res |-> IF committed.res.st # "Ok" THEN committed.res
             ELSE Ok([root_hash |-> Unwrap(committed.res.val).root_hash,
                      node_set |-> Unwrap(committed.res.val).node_set])]

\* update_and_commit, steps 4-5: the storage tries of Task 2 are committed
\* with the account trie that Task 1 left
UacUpdated(cache, db, task1, task2) ==
    IF task1.res.st # "Ok" \/ \E h \in DOMAIN task2 : task2[h].res.st # "Ok"
    THEN [tdb |-> task1.tdb, cache |-> cache, res |-> Panic]
    ELSE UacCommitted(cache,
             commit([task1.tdb EXCEPT !.storage_tries =
                                         [h \in DOMAIN task2 |-> task2[h].trie],
                                      !.updated_storage_roots = EmptyMap],
                    db, TRUE))

\* update_and_commit, steps 3-4 after the account entries are prepared
UacPreparedAll(db, states_rebuild, storage_states, prepared) ==
    IF prepared.res.st # "Ok"
    THEN [tdb |-> prepared.tdb, cache |-> prepared.cache, res |-> prepared.res]
    ELSE UacUpdated(
             prepared.cache, db,
             UpdateAccounts(
                 DeleteRebuilt(
                     [tdb |-> [prepared.tdb EXCEPT !.accounts_with_storage_trie =
                                  prepared.update_accounts_with_storage],
                      res |-> Ok(<<>>)],
                     db, states_rebuild),
                 db, prepared.update_accounts, DOMAIN prepared.update_accounts),
             [h \in DOMAIN storage_states |->
                 StorageTask(prepared.tdb.difflayer, db,
                             prepared.update_accounts_with_storage, h, storage_states[h])])

\* TrieDB::update_and_commit (triedb.rs)
update_and_commit(tdb, cache, db, root_hash, difflayer, states, states_rebuild, storage_states) ==
    UacPreparedAll(db, states_rebuild, storage_states,
                   UacPrepareAccounts([tdb |-> state_at(tdb, root_hash, difflayer),
                                       cache |-> cache,
                                       res |-> Ok(<<>>),
                                       update_accounts |-> EmptyMap,
                                       update_accounts_with_storage |-> EmptyMap],
                                      db, states, states_rebuild, storage_states,
                                      DOMAIN states))

\* commit_hashed_post_state, lines 176-183: the caller wraps the outputs in
\* a DiffLayer, None when it is empty
wrap_difflayer(node_set, diff_storage_roots) ==
    IF DiffLayer_is_empty(DiffLayer_new(to_diff_nodes(node_set), diff_storage_roots))
    THEN None
    ELSE Some(DiffLayer_new(to_diff_nodes(node_set), diff_storage_roots))


\* The loop of flush_trie_nodes over the nodes of the layer
RECURSIVE FlushNodes(_, _, _)
FlushNodes(batch, diff_nodes, todo) ==
    IF todo = {} THEN batch
    ELSE FlushNodes(IF TrieNode_is_deleted(diff_nodes[CHOOSE k \in todo : TRUE])
                    THEN MemoryDBBatch_delete(batch, CHOOSE k \in todo : TRUE)
                    ELSE MemoryDBBatch_insert(batch, CHOOSE k \in todo : TRUE,
                             Unwrap(diff_nodes[CHOOSE k \in todo : TRUE].blob)),
                    diff_nodes, todo \ {CHOOSE k \in todo : TRUE})

\* flush_trie_nodes, lines 50-53: the batch starts with the two markers
FlushMarkers(block_number, state_root) ==
    MemoryDBBatch_insert(
        MemoryDBBatch_insert(<<>>, <<TRIE_STATE_ROOT_KEY>>, B256_as_slice(state_root)),
        <<TRIE_STATE_BLOCK_NUMBER_KEY>>, to_le_bytes(block_number))

\* TrieDB::flush_trie_nodes: one batch of the two markers and the nodes;
\* fails is the backend refusing the batch, which then changes nothing.
flush_trie_nodes(db, block_number, state_root, update_nodes, fails) ==
    IF fails THEN [db |-> db, res |-> Err]
    ELSE [db |-> apply_batch(db,
                     IF IsSome(update_nodes)
                     THEN FlushNodes(FlushMarkers(block_number, state_root),
                                     Unwrap(update_nodes).diff_nodes,
                                     DOMAIN Unwrap(update_nodes).diff_nodes)
                     ELSE FlushMarkers(block_number, state_root)),
          res |-> Ok(<<>>)]

\* TrieDB::latest_persist_state
TrieDB_latest_persist_state(db) ==
    IF ~IsSome(MapGet(db, <<TRIE_STATE_BLOCK_NUMBER_KEY>>))
       \/ ~IsSome(MapGet(db, <<TRIE_STATE_ROOT_KEY>>)) THEN Err
    ELSE IF Len(Unwrap(MapGet(db, <<TRIE_STATE_BLOCK_NUMBER_KEY>>))) # 8 THEN Err
    ELSE IF Len(Unwrap(MapGet(db, <<TRIE_STATE_ROOT_KEY>>))) # 1 THEN Panic
    ELSE Ok(<<from_le_bytes(Unwrap(MapGet(db, <<TRIE_STATE_BLOCK_NUMBER_KEY>>))),
              B256_from_slice(Unwrap(MapGet(db, <<TRIE_STATE_ROOT_KEY>>)))>>)

----------------------------------------------------------------------------
(* Spec: one driver over one backend.  A caller commits blocks with        *)
(* batch_update_and_commit over the layers that are not flushed yet,       *)
(* keeps the resulting layer at the front of its list, and flushes the     *)
(* oldest layer.                                                           *)

MaxBlocks == 3

a1 == <<18>>
a2 == <<19>>
s1 == <<18>>
s2 == <<19>>

DrvOwners == {a1, a2}
DrvSlots == {s1, s2}

DrvAccount(nonce) == StateAccount(nonce, 0, EMPTY_ROOT_HASH, KECCAK_EMPTY)

Map1(k, v) == MapPut(EmptyMap, k, v)
Map2(k1, v1, k2, v2) == MapPut(Map1(k1, v1), k2, v2)

DrvInput(states, states_rebuild, storage_states) ==
    [states |-> states, states_rebuild |-> states_rebuild,
     storage_states |-> storage_states]

\* The layers handed to the driver: DiffLayers filled from the newest block
\* to the oldest, None when no layer is pending.
RECURSIVE DrvLayersFrom(_, _, _)
DrvLayersFrom(chain, i, layers) ==
    IF i > Len(chain) THEN IF Len(layers) = 0 THEN None ELSE Some(layers)
    ELSE DrvLayersFrom(chain, i + 1,
                       IF IsSome(chain[i].difflayer)
                       THEN DiffLayers_insert_difflayer(layers, Unwrap(chain[i].difflayer))
                       ELSE layers)

DrvDifflayer(chain) == DrvLayersFrom(chain, 1, <<>>)

\* Option<StateAccount> of a read, None also when the read fails
ReadAccount(g) == IF g.res.st = "Ok" THEN Unwrap(g.res.val) ELSE None

\* What a fresh driver reads at a root
AccountAt(root_hash, difflayer, db, hashed_address) ==
    ReadAccount(TrieDB_get_account_with_hash_state(
                    state_at(TrieDB_new, root_hash, difflayer), db, hashed_address))

StorageAt(root_hash, difflayer, db, hashed_address, hashed_key) ==
    TrieDB_get_storage_with_hash_state(state_at(TrieDB_new, root_hash, difflayer),
                                       db, hashed_address, hashed_key).res

\* The account a caller hands back after reading it: the account as stored,
\* storage root included, with a new nonce
Carried(account) ==
    IF IsSome(account) THEN [Unwrap(account) EXCEPT !.nonce = 3] ELSE DrvAccount(3)

\* The batches a caller submits; stored is the Option<StateAccount> of a1
\* at the head
DrvInputs(stored) ==
    { DrvInput(Map1(a1, Some(DrvAccount(1))), {}, Map1(a1, Map1(s1, Some(1)))),
      DrvInput(Map1(a1, Some(DrvAccount(2))), {}, Map1(a1, Map1(s2, Some(2)))),
      DrvInput(Map1(a1, Some(DrvAccount(2))), {}, EmptyMap),
      DrvInput(Map1(a1, None), {}, EmptyMap),
      DrvInput(Map1(a1, Some(DrvAccount(1))), {}, Map1(a1, Map1(s1, Some(0)))),
      DrvInput(Map1(a1, Some(Carried(stored))), {a1}, Map1(a1, Map1(s2, Some(2)))),
      DrvInput(Map2(a1, Some(DrvAccount(2)), a2, Some(DrvAccount(1))), {},
               Map2(a1, Map1(s2, Some(2)), a2, Map1(s1, Some(1)))),
      DrvInput(EmptyMap, {}, Map1(a1, Map1(s1, Some(1)))) }

\* root_hash is the root the call was made at
DrvLast(op, input, root_hash, res) ==
    [op |-> op, input |-> input, root_hash |-> root_hash, res |-> res]

DrvInitVars ==
    /\ drv_db = EmptyMap
    /\ drv_flat = EmptyMap
    /\ drv_chain = <<>>
    /\ drv_head = [block_number |-> 0, state_root |-> EMPTY_ROOT_HASH]
    /\ drv_tdb = TrieDB_new
    /\ drv_last = DrvLast("new", <<>>, EMPTY_ROOT_HASH, Ok(<<>>))

\* The block a successful call adds at the front of the pending layers
DrvBlock(block_number, out) ==
    [block_number |-> block_number,
     state_root |-> out.root_hash,
     difflayer |-> wrap_difflayer(out.node_set, out.diff_storage_roots)]

\* The caller after batch_update_and_commit returned r: on success the
\* outputs are wrapped in a DiffLayer kept at the front.  A panic ends the
\* driver, a new one is created over the same backend.
DrvCommitted(input, r) ==
    /\ drv_tdb' = IF r.res.st = "Panic" THEN TrieDB_new ELSE r.tdb
    /\ drv_head' = IF r.res.st = "Ok"
                   THEN [block_number |-> drv_head.block_number + 1,
                         state_root |-> Unwrap(r.res.val).root_hash]
                   ELSE drv_head
    /\ drv_chain' = IF r.res.st = "Ok"
                    THEN <<DrvBlock(drv_head.block_number + 1, Unwrap(r.res.val))>>
                         \o drv_chain
                    ELSE drv_chain
    /\ drv_last' = DrvLast("batch_update_and_commit", input, drv_head.state_root, r.res)

\* One block: batch_update_and_commit at the head over the pending layers
DrvBatchUpdateAndCommit ==
    /\ drv_head.block_number < MaxBlocks
    /\ \E input \in DrvInputs(AccountAt(drv_head.state_root, DrvDifflayer(drv_chain),
                                        drv_db, a1)) :
         DrvCommitted(input,
                      batch_update_and_commit(drv_tdb, drv_db, drv_flat,
                                              drv_head.state_root, DrvDifflayer(drv_chain),
                                              input.states, input.states_rebuild,
                                              input.storage_states))
    /\ UNCHANGED <<drv_db, drv_flat, DrvOthers>>

\* The caller after flush_trie_nodes of the oldest layer returned r
DrvFlushed(oldest, r) ==
    /\ drv_db' = r.db
    /\ drv_chain' = IF r.res.st = "Ok" THEN Take(drv_chain, Len(drv_chain) - 1)
                    ELSE drv_chain
    /\ drv_last' = DrvLast("flush", <<oldest.block_number>>, oldest.state_root, r.res)

\* flush of the oldest pending layer
DrvFlush ==
    /\ Len(drv_chain) > 0
    /\ \E fails \in BOOLEAN :
         DrvFlushed(drv_chain[Len(drv_chain)],
                    flush_trie_nodes(drv_db, drv_chain[Len(drv_chain)].block_number,
                                     drv_chain[Len(drv_chain)].state_root,
                                     drv_chain[Len(drv_chain)].difflayer, fails))
    /\ UNCHANGED <<drv_flat, drv_head, drv_tdb, DrvOthers>>

\* The backend's flat storage-root table receives an entry, between blocks
\* when no layer is pending
DrvInsertStorageRoot ==
    /\ Len(drv_chain) = 0
    /\ a1 \notin DOMAIN drv_flat
    /\ drv_flat' = MapPut(drv_flat, a1, EMPTY_ROOT_HASH)
    /\ drv_last' = DrvLast("insert_storage_root", <<a1>>, drv_head.state_root, Ok(<<>>))
    /\ UNCHANGED <<drv_db, drv_chain, drv_head, drv_tdb, DrvOthers>>

\* The blocks: commits, flushes and the flat table
DrvNext ==
    \/ DrvBatchUpdateAndCommit
    \/ DrvFlush
    \/ DrvInsertStorageRoot

----------------------------------------------------------------------------
(* SpecTracer: one tracer; its callers read, insert and delete paths in    *)
(* any order.  tr_events is the history of the calls.                      *)

MaxEvents == 5

TrPaths == {<<>>, <<1>>}

\* The blob on_read stores for a path
TrBlob(path) == <<192>> \o path

TrInitVars ==
    /\ tr_tracer = TrieTracer_new
    /\ tr_events = <<>>

TrOnRead ==
    \E p \in TrPaths :
        /\ Len(tr_events) < MaxEvents
        /\ tr_tracer' = on_read(tr_tracer, p, TrBlob(p))
        /\ tr_events' = Append(tr_events, [op |-> "on_read", path |-> p])
        /\ UNCHANGED TrOthers

TrOnInsert ==
    \E p \in TrPaths :
        /\ Len(tr_events) < MaxEvents
        /\ tr_tracer' = on_insert(tr_tracer, p)
        /\ tr_events' = Append(tr_events, [op |-> "on_insert", path |-> p])
        /\ UNCHANGED TrOthers

TrOnDelete ==
    \E p \in TrPaths :
        /\ Len(tr_events) < MaxEvents
        /\ tr_tracer' = on_delete(tr_tracer, p)
        /\ tr_events' = Append(tr_events, [op |-> "on_delete", path |-> p])
        /\ UNCHANGED TrOthers

TrNext == TrOnRead \/ TrOnInsert \/ TrOnDelete

----------------------------------------------------------------------------
(* SpecTrie: one account trie over a backend.  Callers update, delete and  *)
(* get accounts by hashed address; a commit hashes the trie, collects the  *)
(* NodeSet (serially or with parallel child tasks), writes it to the       *)
(* backend and reopens the trie at the new root.                           *)

MaxTrieOps == 6

\* Hashed addresses: two share their first nibble, the third does not
TtKeys == {<<17>>, <<18>>, <<33>>}

TtAccounts == {DrvAccount(1), DrvAccount(2)}

TtNoCall ==
    [op |-> "none", key |-> <<>>, value |-> None, present |-> FALSE,
     before |-> EMPTY_ROOT_HASH, after |-> EMPTY_ROOT_HASH, got |-> Ok(None),
     pre |-> None, parallel |-> FALSE, set |-> None]

TtInitVars ==
    /\ tt_db = EmptyMap
    /\ tt_trie = StateTrie_new(EMPTY_ROOT_HASH, B256_ZERO, None)
    /\ tt_map = EmptyMap
    /\ tt_prev = TtNoCall
    /\ tt_last = TtNoCall
    /\ tt_steps = 0

\* The call record of an update, a delete or a get: r is [trie, res]
TtCalled(op, key, value, r) ==
    [TtNoCall EXCEPT !.op = op, !.key = key, !.value = value,
                     !.present = key \in DOMAIN tt_map,
                     !.before = Trie_hash(tt_trie),
                     !.after = Trie_hash(r.trie),
                     !.got = r.res]

TtStep(call, trie) ==
    /\ tt_steps < MaxTrieOps
    /\ tt_steps' = tt_steps + 1
    /\ tt_prev' = tt_last
    /\ tt_last' = call
    /\ tt_trie' = trie

TtUpdate ==
    \E k \in TtKeys, account \in TtAccounts :
        /\ TtStep(TtCalled("update", k, Some(account),
                           StateTrie_update_account_with_hash_state(tt_trie, tt_db, k, account)),
                  StateTrie_update_account_with_hash_state(tt_trie, tt_db, k, account).trie)
        /\ tt_map' = MapPut(tt_map, k, account)
        /\ UNCHANGED <<tt_db, TtOthers>>

TtDelete ==
    \E k \in TtKeys :
        /\ TtStep(TtCalled("delete", k, None,
                           StateTrie_delete_account_with_hash_state(tt_trie, tt_db, k)),
                  StateTrie_delete_account_with_hash_state(tt_trie, tt_db, k).trie)
        /\ tt_map' = MapRemove(tt_map, k)
        /\ UNCHANGED <<tt_db, TtOthers>>

TtGet ==
    \E k \in TtKeys :
        /\ TtStep(TtCalled("get", k, None,
                           StateTrie_get_account_with_hash_state(tt_trie, tt_db, k)),
                  StateTrie_get_account_with_hash_state(tt_trie, tt_db, k).trie)
        /\ UNCHANGED <<tt_db, tt_map, TtOthers>>

\* The backend after the nodes of a NodeSet are written: a deleted entry
\* removes its key
TtWritten(db, owner, set) ==
    IF ~IsSome(set) THEN db
    ELSE LET nodes == Unwrap(set).nodes
             written == { NodeKey(owner, path) : path \in DOMAIN nodes }
             PathOf(key) == CHOOSE path \in DOMAIN nodes : NodeKey(owner, path) = key
             gone == { key \in written : TrieNode_is_deleted(nodes[PathOf(key)]) }
         IN [key \in ((DOMAIN db) \cup written) \ gone |->
               IF key \in written THEN Unwrap(nodes[PathOf(key)].blob) ELSE db[key]]

\* The call record of a commit: r is [hash, set]
TtCommitted(parallel, r) ==
    [TtNoCall EXCEPT !.op = "commit", !.before = Trie_hash(tt_trie), !.after = r.hash,
                     !.pre = Some(tt_trie), !.parallel = parallel, !.set = r.set]

TtCommitWith(parallel, r) ==
    /\ TtStep(TtCommitted(parallel, r), StateTrie_new(r.hash, B256_ZERO, None))
    /\ tt_db' = TtWritten(tt_db, B256_ZERO, r.set)
    /\ UNCHANGED <<tt_map, TtOthers>>

\* The merge orders a commit of root can run under
TtSchedules(parallel, root) ==
    IF parallel /\ root.t = "full" THEN Schedules(root) ELSE {<<>>}

TtCommit ==
    \E parallel \in BOOLEAN :
        \E sched \in TtSchedules(parallel, tt_trie.root) :
            TtCommitWith(parallel,
                         CommitHashedRoot(tt_trie, HashedNode(tt_trie.root), TRUE,
                                          parallel, sched))

TtNext == TtUpdate \/ TtDelete \/ TtGet \/ TtCommit

----------------------------------------------------------------------------
(* SpecReads: a backend that receives at most one block (committed with    *)
(* batch_update_and_commit, flushed or still pending as a diff layer), and *)
(* a driver that is opened at the head with state_at, read with            *)
(* get_account / get_storage, and then hashed or committed.                *)

MaxReads == 2

RdInputs ==
    { DrvInput(Map1(a1, Some(DrvAccount(1))), {}, Map1(a1, Map1(s1, Some(1)))),
      DrvInput(Map1(a1, Some(DrvAccount(2))), {}, EmptyMap) }

RdLast(op, key, res) == [op |-> op, key |-> key, res |-> res]

RdInitVars ==
    /\ rd_db = EmptyMap
    /\ rd_head = [state_root |-> EMPTY_ROOT_HASH, difflayer |-> None]
    /\ rd_tdb = TrieDB_new
    /\ rd_phase = "closed"
    /\ rd_reads = 0
    /\ rd_last = RdLast("new", <<>>, Ok(<<>>))

\* The pending layer as the DiffLayers handed to state_at
RdDifflayer ==
    IF IsSome(rd_head.difflayer)
    THEN Some(DiffLayers_insert_difflayer(<<>>, Unwrap(rd_head.difflayer)))
    ELSE None

\* The caller after batch_update_and_commit returned r
RdCommittedBlock(r) ==
    /\ r.res.st = "Ok"
    /\ rd_head' = [state_root |-> Unwrap(r.res.val).root_hash,
                   difflayer |-> wrap_difflayer(Unwrap(r.res.val).node_set,
                                                Unwrap(r.res.val).diff_storage_roots)]
    /\ rd_tdb' = r.tdb
    /\ rd_last' = RdLast("batch_update_and_commit", <<>>, Ok(<<>>))

\* The one block: batch_update_and_commit on the empty state
RdBlock ==
    /\ rd_phase = "closed"
    /\ rd_head.state_root = EMPTY_ROOT_HASH
    /\ \E input \in RdInputs :
         RdCommittedBlock(batch_update_and_commit(rd_tdb, rd_db, EmptyMap, EMPTY_ROOT_HASH,
                                                  None, input.states, input.states_rebuild,
                                                  input.storage_states))
    /\ UNCHANGED <<rd_db, rd_phase, rd_reads, RdOthers>>

\* flush of the pending layer
RdFlush ==
    /\ rd_phase = "closed"
    /\ IsSome(rd_head.difflayer)
    /\ rd_db' = flush_trie_nodes(rd_db, 1, rd_head.state_root, rd_head.difflayer, FALSE).db
    /\ rd_head' = [rd_head EXCEPT !.difflayer = None]
    /\ rd_last' = RdLast("flush", <<>>, Ok(<<>>))
    /\ UNCHANGED <<rd_tdb, rd_phase, rd_reads, RdOthers>>

\* state_at(root, layers) at the head
RdStateAt ==
    /\ rd_phase \in {"closed", "hashed"}
    /\ rd_tdb' = state_at(rd_tdb, rd_head.state_root, RdDifflayer)
    /\ rd_phase' = "reading"
    /\ rd_reads' = 0
    /\ rd_last' = RdLast("state_at", <<>>, Ok(<<>>))
    /\ UNCHANGED <<rd_db, rd_head, RdOthers>>

\* The driver after a get call returned r
RdRead(op, key, r) ==
    /\ rd_phase = "reading"
    /\ rd_reads < MaxReads
    /\ rd_reads' = rd_reads + 1
    /\ rd_tdb' = r.tdb
    /\ rd_last' = RdLast(op, key, r.res)
    /\ UNCHANGED <<rd_db, rd_head, rd_phase, RdOthers>>

RdGetAccount ==
    \E h \in DrvOwners :
        RdRead("get_account", <<h>>, TrieDB_get_account_with_hash_state(rd_tdb, rd_db, h))

RdGetStorage ==
    \E h \in DrvOwners, k \in DrvSlots :
        RdRead("get_storage", <<h, k>>,
               TrieDB_get_storage_with_hash_state(rd_tdb, rd_db, h, k))

\* The driver after calculate_hash or commit returned r
RdHashed(op, r) ==
    /\ rd_phase = "reading"
    /\ rd_phase' = "hashed"
    /\ rd_tdb' = r.tdb
    /\ rd_last' = RdLast(op, <<>>, r.res)
    /\ UNCHANGED <<rd_db, rd_head, rd_reads, RdOthers>>

RdCalculateHash == RdHashed("calculate_hash", calculate_hash(rd_tdb, rd_db))

RdCommit == RdHashed("commit", commit(rd_tdb, rd_db, TRUE))

RdNext ==
    \/ RdBlock
    \/ RdFlush
    \/ RdStateAt
    \/ RdGetAccount
    \/ RdGetStorage
    \/ RdCalculateHash
    \/ RdCommit

----------------------------------------------------------------------------
(* SpecTasks: batch_update_and_commit with its two tasks interleaved.      *)
(* After the accounts are prepared, Task 1 (the account trie: the rebuilt  *)
(* accounts are deleted, then the accounts without storage changes are     *)
(* written) and Task 2 (one task per owner: the storage trie is built,     *)
(* then its key-values are applied) run one trie operation at a time in    *)
(* any order; the loops run over hash maps, so each takes its entries in   *)
(* any order.  The join installs the storage tries and commits.            *)

MaxTaskBlocks == 2

TkInputs ==
    { DrvInput(Map2(a1, Some(DrvAccount(1)), a2, Some(DrvAccount(1))), {},
               Map1(a1, Map2(s1, Some(1), s2, Some(2)))),
      DrvInput(Map2(a1, Some(DrvAccount(2)), a2, Some(DrvAccount(2))), {},
               Map2(a1, Map1(s1, Some(2)), a2, Map1(s1, Some(1)))),
      DrvInput(Map2(a1, Some(DrvAccount(2)), a2, None), {a1},
               Map1(a1, Map1(s2, Some(2)))),
      DrvInput(Map1(a2, Some(DrvAccount(1))), {}, Map1(a1, Map1(s1, Some(1)))) }

TkNoCall ==
    [input |-> DrvInput(EmptyMap, {}, EmptyMap), tdb |-> TrieDB_new,
     root_hash |-> EMPTY_ROOT_HASH, difflayer |-> None,
     update_accounts |-> EmptyMap, update_accounts_with_storage |-> EmptyMap]

TkNoTask1 == [acc |-> [tdb |-> TrieDB_new, res |-> Ok(<<>>)], rebuild |-> {}, updates |-> {}]

TkInitVars ==
    /\ tk_db = EmptyMap
    /\ tk_head = [state_root |-> EMPTY_ROOT_HASH, difflayer |-> None]
    /\ tk_blocks = 0
    /\ tk_pc = "idle"
    /\ tk_call = TkNoCall
    /\ tk_a = TkNoTask1
    /\ tk_b = EmptyMap
    /\ tk_last = [op |-> "new", res |-> Ok(<<>>)]

\* The pending layer as the DiffLayers handed to the call
TkDifflayer ==
    IF IsSome(tk_head.difflayer)
    THEN Some(DiffLayers_insert_difflayer(<<>>, Unwrap(tk_head.difflayer)))
    ELSE None

\* batch_update_and_commit, steps 1-3 done: prepared is what PrepareAccounts
\* left.  An error of step 2 ends the call; else the two tasks start.
TkPrepared(input, prepared) ==
    /\ tk_call' = [input |-> input, tdb |-> tk_a.acc.tdb,
                   root_hash |-> tk_head.state_root, difflayer |-> TkDifflayer,
                   update_accounts |-> prepared.update_accounts,
                   update_accounts_with_storage |-> prepared.update_accounts_with_storage]
    /\ tk_pc' = IF prepared.res.st = "Ok" THEN "tasks" ELSE "idle"
    /\ tk_a' = [acc |-> [tdb |-> [prepared.tdb EXCEPT !.accounts_with_storage_trie =
                                     prepared.update_accounts_with_storage],
                         res |-> prepared.res],
                rebuild |-> input.states_rebuild,
                updates |-> DOMAIN prepared.update_accounts]
    /\ tk_b' = [h \in DOMAIN input.storage_states |->
                  [st |-> "new",
                   acc |-> [trie |-> StateTrie_new(EMPTY_ROOT_HASH, h, None),
                            res |-> Ok(<<>>)],
                   todo |-> DOMAIN input.storage_states[h]]]
    /\ tk_last' = [op |-> "prepare", res |-> prepared.res]

TkStart ==
    /\ tk_pc = "idle"
    /\ tk_blocks < MaxTaskBlocks
    /\ \E input \in TkInputs :
         TkPrepared(input,
                    PrepareAccounts([tdb |-> state_at(tk_a.acc.tdb, tk_head.state_root,
                                                      TkDifflayer),
                                     res |-> Ok(<<>>),
                                     update_accounts |-> EmptyMap,
                                     update_accounts_with_storage |-> EmptyMap],
                                    tk_db, EmptyMap, input.states, input.states_rebuild,
                                    input.storage_states, DOMAIN input.states))
    /\ UNCHANGED <<tk_db, tk_head, tk_blocks, TkOthers>>

\* Task 1 after one call on the account trie returned r: the unwrap turns
\* an error into a panic
TkTask1Step(r, rebuild, updates) ==
    /\ tk_a' = [acc |-> [tdb |-> r.tdb, res |-> IF r.res.st = "Ok" THEN r.res ELSE Panic],
                rebuild |-> rebuild, updates |-> updates]
    /\ UNCHANGED <<tk_db, tk_head, tk_blocks, tk_pc, tk_call, tk_b, tk_last, TkOthers>>

\* Task 1, first loop: one rebuilt account is deleted
TkDeleteRebuilt ==
    /\ tk_pc = "tasks"
    /\ tk_a.acc.res.st = "Ok"
    /\ \E h \in tk_a.rebuild :
         TkTask1Step(TrieDB_delete_account_with_hash_state(tk_a.acc.tdb, tk_db, h),
                     tk_a.rebuild \ {h}, tk_a.updates)

\* Task 1, second loop: one account is written or deleted
TkUpdateAccount ==
    /\ tk_pc = "tasks"
    /\ tk_a.acc.res.st = "Ok"
    /\ tk_a.rebuild = {}
    /\ \E h \in tk_a.updates :
         TkTask1Step(IF IsSome(tk_call.update_accounts[h])
                     THEN TrieDB_update_account_with_hash_state(
                              tk_a.acc.tdb, tk_db, h, Unwrap(tk_call.update_accounts[h]))
                     ELSE TrieDB_delete_account_with_hash_state(tk_a.acc.tdb, tk_db, h),
                     {}, tk_a.updates \ {h})

\* Task 2 of owner h after one step: st, r = [trie, res], what is left
TkTask2Step(h, st, r, todo) ==
    /\ tk_b' = [tk_b EXCEPT ![h] =
                  [st |-> st,
                   acc |-> [trie |-> r.trie,
                            res |-> IF r.res.st = "Ok" THEN Ok(<<>>) ELSE Panic],
                   todo |-> todo]]
    /\ UNCHANGED <<tk_db, tk_head, tk_blocks, tk_pc, tk_call, tk_a, tk_last, TkOthers>>

\* Task 2 of one owner starts: the storage trie is built at the storage
\* root of the owner's prepared account
TkBuildStorageTrie ==
    /\ tk_pc = "tasks"
    /\ \E h \in DOMAIN tk_b :
         /\ tk_b[h].st = "new"
         /\ TkTask2Step(h, "open",
                        StorageTask(tk_a.acc.tdb.difflayer, tk_db,
                                    tk_call.update_accounts_with_storage, h, EmptyMap),
                        tk_b[h].todo)

\* Task 2 of one owner applies one key-value
TkUpdateStorage ==
    /\ tk_pc = "tasks"
    /\ \E h \in DOMAIN tk_b :
         /\ tk_b[h].st = "open"
         /\ tk_b[h].acc.res.st = "Ok"
         /\ \E k \in tk_b[h].todo :
              TkTask2Step(h, "open",
                          UpdateStorage(tk_b[h].acc, tk_db, tk_call.input.storage_states[h],
                                        {k}),
                          tk_b[h].todo \ {k})

\* A task is over when nothing is left for it, or when it panicked
TkTask1Over == tk_a.acc.res.st # "Ok" \/ (tk_a.rebuild = {} /\ tk_a.updates = {})

TkTask2Over(h) ==
    tk_b[h].st = "open" /\ (tk_b[h].acc.res.st # "Ok" \/ tk_b[h].todo = {})

\* The caller after the join and the commit returned r
TkReturned(r) ==
    /\ tk_last' = [op |-> "batch_update_and_commit", res |-> r.res]
    /\ tk_a' = [TkNoTask1 EXCEPT !.acc.tdb = IF r.res.st = "Panic" THEN TrieDB_new
                                             ELSE r.tdb]
    /\ tk_b' = EmptyMap
    /\ tk_pc' = "idle"
    /\ tk_blocks' = tk_blocks + 1
    /\ tk_head' = IF r.res.st = "Ok"
                  THEN [state_root |-> Unwrap(r.res.val).root_hash,
                        difflayer |-> wrap_difflayer(Unwrap(r.res.val).node_set,
                                                     Unwrap(r.res.val).diff_storage_roots)]
                  ELSE tk_head

\* rayon::join returns when both tasks are over; steps 4-6 follow
TkJoin ==
    /\ tk_pc = "tasks"
    /\ TkTask1Over
    /\ \A h \in DOMAIN tk_b : TkTask2Over(h)
    /\ TkReturned(BatchUpdated(tk_db, tk_a.acc, [h \in DOMAIN tk_b |-> tk_b[h].acc]))
    /\ UNCHANGED <<tk_db, tk_call, TkOthers>>

\* flush of the pending layer, between calls
TkFlush ==
    /\ tk_pc = "idle"
    /\ IsSome(tk_head.difflayer)
    /\ tk_db' = flush_trie_nodes(tk_db, tk_blocks, tk_head.state_root, tk_head.difflayer,
                                 FALSE).db
    /\ tk_head' = [tk_head EXCEPT !.difflayer = None]
    /\ tk_last' = [op |-> "flush", res |-> Ok(<<>>)]
    /\ UNCHANGED <<tk_blocks, tk_pc, tk_call, tk_a, tk_b, TkOthers>>

TkNext ==
    \/ TkStart
    \/ TkDeleteRebuilt
    \/ TkUpdateAccount
    \/ TkBuildStorageTrie
    \/ TkUpdateStorage
    \/ TkJoin
    \/ TkFlush

----------------------------------------------------------------------------
(* SpecPathKV: one PathDB whose RocksDB never fails.  Callers put, delete,  *)
(* get, test and clear the cache in any order; kv_map is the key-value map  *)
(* their puts and deletes describe.                                         *)

KvCacheSize == 1

KvKeys == {"n1", "n2", "n3"}
KvValues == {<<8>>, <<9>>}

KvLast(op, key, res) == [op |-> op, key |-> key, res |-> res]

KvInitVars ==
    /\ kv_cache = <<>>
    /\ kv_db = [k \in KvKeys |-> None]
    /\ kv_map = [k \in KvKeys |-> None]
    /\ kv_last = KvLast("new", "", None)

KvPut(key, value) ==
    /\ kv_cache' = CacheInsert(kv_cache, KvCacheSize, key, Some(value))
    /\ kv_db' = [kv_db EXCEPT ![key] = Some(value)]
    /\ kv_map' = [kv_map EXCEPT ![key] = Some(value)]
    /\ kv_last' = KvLast("put_raw", key, None)
    /\ UNCHANGED KvOthers

KvDelete(key) ==
    /\ kv_cache' = CacheRemove(kv_cache, key)
    /\ kv_db' = [kv_db EXCEPT ![key] = None]
    /\ kv_map' = [kv_map EXCEPT ![key] = None]
    /\ kv_last' = KvLast("delete_raw", key, None)
    /\ UNCHANGED KvOthers

KvGet(key) ==
    /\ kv_cache' = get_raw_cache(kv_cache, KvCacheSize, kv_db, key)
    /\ kv_last' = KvLast("get_raw", key, get_raw(kv_cache, kv_db, key))
    /\ UNCHANGED <<kv_db, kv_map, KvOthers>>

KvExists(key) ==
    /\ kv_cache' = exists_raw_cache(kv_cache, KvCacheSize, kv_db, key)
    /\ kv_last' = KvLast("exists_raw", key, exists_raw(kv_cache, kv_db, key))
    /\ UNCHANGED <<kv_db, kv_map, KvOthers>>

KvClearCache ==
    /\ kv_cache' = <<>>
    /\ kv_last' = KvLast("clear_cache", "", None)
    /\ UNCHANGED <<kv_db, kv_map, KvOthers>>

KvNext ==
    \/ \E key \in KvKeys, value \in KvValues : KvPut(key, value)
    \/ \E key \in KvKeys : KvDelete(key)
    \/ \E key \in KvKeys : KvGet(key)
    \/ \E key \in KvKeys : KvExists(key)
    \/ KvClearCache

----------------------------------------------------------------------------
(* SpecPathRace: two threads on one PathDB (it is Clone and its methods     *)
(* take &self).  One thread calls get_raw; the other calls put_raw,         *)
(* delete_raw or commit_difflayer.  A step is one critical section of the   *)
(* cache mutex or one RocksDB call; RocksDB never fails here.               *)

MaxRaceCalls == 4

RcKeys == {"n1"}
RcValues == {<<8>>, <<9>>}
RcLayers ==
    { DiffLayer_new([k \in RcKeys |-> PDBBlobNode], EmptyMap),
      DiffLayer_new([k \in RcKeys |-> TrieNode_default], EmptyMap) }

RcIdle == [pc |-> "idle", key |-> "", val |-> None]
RcWriterIdle == [pc |-> "idle", key |-> "", value |-> <<>>, difflayer |-> None]

RcInitVars ==
    /\ rc_cache = <<>>
    /\ rc_db = [k \in PDBKeys |-> None]
    /\ rc_reader = RcIdle
    /\ rc_writer = RcWriterIdle
    /\ rc_calls = 0
    /\ rc_overlap = FALSE

\* A call begins on one thread; other_pc is where the other thread is
RcBegin(other_pc) ==
    /\ rc_calls < MaxRaceCalls
    /\ rc_calls' = rc_calls + 1
    /\ rc_overlap' = (rc_overlap \/ other_pc # "idle")

\* get_raw(key), first critical section: cache.peek; a hit returns
RcGetPeek ==
    \E key \in RcKeys :
        /\ rc_reader.pc = "idle"
        /\ RcBegin(rc_writer.pc)
        /\ rc_reader' = IF IsSome(CachePeek(rc_cache, key)) THEN RcIdle
                        ELSE [pc |-> "read", key |-> key, val |-> None]
        /\ UNCHANGED <<rc_cache, rc_db, rc_writer, RcOthers>>

\* get_raw: db.get_cf_opt; Ok(None) returns
RcGetRead ==
    /\ rc_reader.pc = "read"
    /\ rc_reader' = IF IsSome(rc_db[rc_reader.key])
                    THEN [rc_reader EXCEPT !.pc = "insert", !.val = rc_db[rc_reader.key]]
                    ELSE RcIdle
    /\ UNCHANGED <<rc_cache, rc_db, rc_writer, rc_calls, rc_overlap, RcOthers>>

\* get_raw, second critical section: the value read is cached
RcGetInsert ==
    /\ rc_reader.pc = "insert"
    /\ rc_cache' = CacheInsert(rc_cache, CacheSize, rc_reader.key, rc_reader.val)
    /\ rc_reader' = RcIdle
    /\ UNCHANGED <<rc_db, rc_writer, rc_calls, rc_overlap, RcOthers>>

\* put_raw(key, value), critical section: cache.insert
RcPutCache ==
    \E key \in RcKeys, value \in RcValues :
        /\ rc_writer.pc = "idle"
        /\ RcBegin(rc_reader.pc)
        /\ rc_cache' = CacheInsert(rc_cache, CacheSize, key, Some(value))
        /\ rc_writer' = [pc |-> "put", key |-> key, value |-> value, difflayer |-> None]
        /\ UNCHANGED <<rc_db, rc_reader, RcOthers>>

\* put_raw: db.put_cf_opt
RcPutWrite ==
    /\ rc_writer.pc = "put"
    /\ rc_db' = [rc_db EXCEPT ![rc_writer.key] = Some(rc_writer.value)]
    /\ rc_writer' = RcWriterIdle
    /\ UNCHANGED <<rc_cache, rc_reader, rc_calls, rc_overlap, RcOthers>>

\* delete_raw(key), critical section: cache.remove
RcDeleteCache ==
    \E key \in RcKeys :
        /\ rc_writer.pc = "idle"
        /\ RcBegin(rc_reader.pc)
        /\ rc_cache' = CacheRemove(rc_cache, key)
        /\ rc_writer' = [pc |-> "delete", key |-> key, value |-> <<>>, difflayer |-> None]
        /\ UNCHANGED <<rc_db, rc_reader, RcOthers>>

\* delete_raw: db.delete_cf_opt
RcDeleteWrite ==
    /\ rc_writer.pc = "delete"
    /\ rc_db' = [rc_db EXCEPT ![rc_writer.key] = None]
    /\ rc_writer' = RcWriterIdle
    /\ UNCHANGED <<rc_cache, rc_reader, rc_calls, rc_overlap, RcOthers>>

\* commit_difflayer(1, root, difflayer), critical section: the markers and
\* the nodes of the layer go into the cache
RcCommitCache ==
    \E layer \in RcLayers, order \in Orders(RcKeys) :
        /\ rc_writer.pc = "idle"
        /\ RcBegin(rc_reader.pc)
        /\ rc_cache' = commit_difflayer_cache(rc_cache, CacheSize, 1, PDBRootOf(1),
                                              Some(layer), order)
        /\ rc_writer' = [pc |-> "batch", key |-> "", value |-> <<>>,
                         difflayer |-> Some(layer)]
        /\ UNCHANGED <<rc_db, rc_reader, RcOthers>>

\* commit_difflayer: db.write_opt(batch)
RcCommitWrite ==
    /\ rc_writer.pc = "batch"
    /\ rc_db' = commit_difflayer_batch(rc_db, 1, PDBRootOf(1), rc_writer.difflayer)
    /\ rc_writer' = RcWriterIdle
    /\ UNCHANGED <<rc_cache, rc_reader, rc_calls, rc_overlap, RcOthers>>

RcNext ==
    \/ RcGetPeek
    \/ RcGetRead
    \/ RcGetInsert
    \/ RcPutCache
    \/ RcPutWrite
    \/ RcDeleteCache
    \/ RcDeleteWrite
    \/ RcCommitCache
    \/ RcCommitWrite

----------------------------------------------------------------------------
(* SpecCalls: one driver whose caller makes the calls in any order, also    *)
(* before state_at and after the reset of a batch.  A backend read that     *)
(* fails during a batch is a node the call cannot read: the call runs on    *)
(* the backend without that key.  The driver is kept after an Err; after a  *)
(* panic a new one is created over the same backend.                        *)

MaxCalls == 3

CaInputs ==
    { DrvInput(Map2(a1, Some(DrvAccount(1)), a2, Some(DrvAccount(1))), {},
               Map1(a1, Map1(s1, Some(1)))),
      DrvInput(Map2(a1, None, a2, Some(DrvAccount(2))), {}, EmptyMap),
      DrvInput(Map1(a2, Some(DrvAccount(2))), {}, Map1(a2, Map1(s1, Some(1)))) }

\* before is the driver the call was made on, at the state root of the head
CaLast(op, input, lost, before, res) ==
    [op |-> op, input |-> input, lost |-> lost, before |-> before,
     at |-> ca_head.state_root, res |-> res]

CaInitVars ==
    /\ ca_db = EmptyMap
    /\ ca_head = [state_root |-> EMPTY_ROOT_HASH, difflayer |-> None]
    /\ ca_tdb = TrieDB_new
    /\ ca_calls = 0
    /\ ca_last = CaLast("new", <<>>, {}, TrieDB_new, Ok(<<>>))

\* The pending layer as the DiffLayers handed to the driver
CaDifflayer ==
    IF IsSome(ca_head.difflayer)
    THEN Some(DiffLayers_insert_difflayer(<<>>, Unwrap(ca_head.difflayer)))
    ELSE None

\* The backend as a call sees it when the reads of the keys in lost fail
CaReadable(lost) == [k \in (DOMAIN ca_db) \ lost |-> ca_db[k]]

\* The reads that fail during one call: none, or those of one key
CaLost == {{}} \cup { {k} : k \in DOMAIN ca_db }

\* The caller after a driver call returned r = [tdb, res]
CaCalled(op, input, lost, r) ==
    /\ ca_calls < MaxCalls
    /\ ca_calls' = ca_calls + 1
    /\ ca_tdb' = IF r.res.st = "Panic" THEN TrieDB_new ELSE r.tdb
    /\ ca_last' = CaLast(op, input, lost, ca_tdb, r.res)

\* The head after batch_update_and_commit returned res
CaHeadAfter(res) ==
    IF res.st = "Ok"
    THEN [state_root |-> Unwrap(res.val).root_hash,
          difflayer |-> wrap_difflayer(Unwrap(res.val).node_set,
                                       Unwrap(res.val).diff_storage_roots)]
    ELSE ca_head

CaBatchReturned(input, lost, r) ==
    /\ CaCalled("batch_update_and_commit", input, lost, r)
    /\ ca_head' = CaHeadAfter(r.res)

\* batch_update_and_commit at the head; the pending layer is flushed first
CaBatch ==
    /\ ~IsSome(ca_head.difflayer)
    /\ \E input \in CaInputs, lost \in CaLost :
         CaBatchReturned(input, lost,
                         batch_update_and_commit(ca_tdb, CaReadable(lost), EmptyMap,
                                                 ca_head.state_root, None, input.states,
                                                 input.states_rebuild,
                                                 input.storage_states))
    /\ UNCHANGED <<ca_db, CaOthers>>

\* flush of the pending layer
CaFlush ==
    /\ IsSome(ca_head.difflayer)
    /\ ca_db' = flush_trie_nodes(ca_db, 1, ca_head.state_root, ca_head.difflayer, FALSE).db
    /\ ca_head' = [ca_head EXCEPT !.difflayer = None]
    /\ ca_last' = CaLast("flush", <<>>, {}, ca_tdb, Ok(<<>>))
    /\ UNCHANGED <<ca_tdb, ca_calls, CaOthers>>

CaStateAt ==
    /\ CaCalled("state_at", <<>>, {},
                [tdb |-> state_at(ca_tdb, ca_head.state_root, CaDifflayer),
                 res |-> Ok(<<>>)])
    /\ UNCHANGED <<ca_db, ca_head, CaOthers>>

CaGetAccount ==
    /\ \E h \in DrvOwners :
         CaCalled("get_account", <<h>>, {},
                  TrieDB_get_account_with_hash_state(ca_tdb, ca_db, h))
    /\ UNCHANGED <<ca_db, ca_head, CaOthers>>

CaGetStorage ==
    /\ \E h \in DrvOwners, k \in {s1} :
         CaCalled("get_storage", <<h, k>>, {},
                  TrieDB_get_storage_with_hash_state(ca_tdb, ca_db, h, k))
    /\ UNCHANGED <<ca_db, ca_head, CaOthers>>

CaUpdateAccount ==
    /\ \E h \in {a2} :
         CaCalled("update_account", <<h>>, {},
                  TrieDB_update_account_with_hash_state(ca_tdb, ca_db, h, DrvAccount(2)))
    /\ UNCHANGED <<ca_db, ca_head, CaOthers>>

CaCalculateHash ==
    /\ CaCalled("calculate_hash", <<>>, {}, calculate_hash(ca_tdb, ca_db))
    /\ UNCHANGED <<ca_db, ca_head, CaOthers>>

CaCommit ==
    /\ CaCalled("commit", <<>>, {}, commit(ca_tdb, ca_db, TRUE))
    /\ UNCHANGED <<ca_db, ca_head, CaOthers>>

CaNext ==
    \/ CaBatch
    \/ CaFlush
    \/ CaStateAt
    \/ CaGetAccount
    \/ CaGetStorage
    \/ CaUpdateAccount
    \/ CaCalculateHash
    \/ CaCommit

----------------------------------------------------------------------------
(* SpecNodeSet: two NodeSets are filled with nodes and leaves in any order, *)
(* merged into each other and into a MergedNodeSet.                         *)

MaxSetOps == 5

NsOwners == {B256_ZERO, a1, a2}
NsPaths == {<<>>, <<1>>}
NsNodes == {TrieNode_new(Some(<<7>>), Some(<<7, 7>>)), TrieNode_default}
NsParents == {<<1>>, <<2>>}
NsBlobs == {<<5>>, <<6>>}

NsLast(op, which, res) == [op |-> op, which |-> which, res |-> res]

NsSet(which) == IF which = "a" THEN ns_a ELSE ns_b

NsInitVars ==
    /\ ns_a = NodeSet_new(B256_ZERO)
    /\ ns_b = NodeSet_new(B256_ZERO)
    /\ ns_merged = MergedNodeSet_new
    /\ ns_last = NsLast("new", "a", "Ok")
    /\ ns_steps = 0

NsStored(which, set, op) ==
    /\ ns_a' = IF which = "a" THEN set ELSE ns_a
    /\ ns_b' = IF which = "b" THEN set ELSE ns_b
    /\ ns_last' = NsLast(op, which, "Ok")
    /\ ns_steps' = ns_steps + 1
    /\ UNCHANGED <<ns_merged, NsOthers>>

NsNew(owner) ==
    /\ ns_steps < MaxSetOps
    /\ NsStored("b", NodeSet_new(owner), "new")

NsAddNode(which, path, node) ==
    /\ ns_steps < MaxSetOps
    /\ NsStored(which, add_node(NsSet(which), path, node), "add_node")

NsAddLeaf(which, parent, blob) ==
    /\ ns_steps < MaxSetOps
    /\ NsStored(which, add_leaf(NsSet(which), parent, blob), "add_leaf")

NsMergeSetReturned(r) ==
    /\ ns_a' = IF r.st = "Ok" THEN Unwrap(r.val) ELSE ns_a
    /\ ns_last' = NsLast("merge_set", "a", r.st)
    /\ ns_steps' = ns_steps + 1
    /\ UNCHANGED <<ns_b, ns_merged, NsOthers>>

\* ns_a.merge_set(&ns_b)
NsMergeSet ==
    /\ ns_steps < MaxSetOps
    /\ NsMergeSetReturned(merge_set(ns_a, ns_b))

NsMergeReturned(which, r) ==
    /\ ns_merged' = IF r.st = "Ok" THEN Unwrap(r.val) ELSE ns_merged
    /\ ns_last' = NsLast("merge", which, r.st)
    /\ ns_steps' = ns_steps + 1
    /\ UNCHANGED <<ns_a, ns_b, NsOthers>>

\* ns_merged.merge(Arc::new(set))
NsMerge(which) ==
    /\ ns_steps < MaxSetOps
    /\ NsMergeReturned(which, MergedNodeSet_merge(ns_merged, NsSet(which)))

NsNext ==
    \/ \E owner \in NsOwners : NsNew(owner)
    \/ \E which \in {"a", "b"}, path \in NsPaths, node \in NsNodes :
          NsAddNode(which, path, node)
    \/ \E which \in {"a", "b"}, parent \in NsParents, blob \in NsBlobs :
          NsAddLeaf(which, parent, blob)
    \/ NsMergeSet
    \/ \E which \in {"a", "b"} : NsMerge(which)

----------------------------------------------------------------------------
(* SpecManager: threads call init_global_manager and get_global_triedb on   *)
(* the OnceLock singleton, each call one step at a time.                    *)

MaxManagerCalls == 4

MgThreads == {1, 2}
MgPaths == {"db1", "db2"}

MgCell(state, by, path) == [state |-> state, by |-> by, path |-> path]

MgThread(pc, op, path, res) == [pc |-> pc, op |-> op, path |-> path, res |-> res]

MgInitVars ==
    /\ mg_cell = MgCell("empty", 0, "")
    /\ mg_root_node = FALSE
    /\ mg_threads = [t \in MgThreads |-> MgThread("idle", "none", "", "none")]
    /\ mg_calls = 0

\* a thread enters init_global_manager(path)
MgInitCall(t, path) ==
    /\ mg_threads[t].pc = "idle"
    /\ mg_calls < MaxManagerCalls
    /\ mg_threads' = [mg_threads EXCEPT ![t] = MgThread("init_root", "init", path, "none")]
    /\ mg_calls' = mg_calls + 1
    /\ UNCHANGED <<mg_cell, mg_root_node, MgOthers>>

\* init_empty_root_node()
MgInitRoot(t) ==
    /\ mg_threads[t].pc = "init_root"
    /\ mg_root_node' = TRUE
    /\ mg_threads' = [mg_threads EXCEPT ![t].pc = "get_or_init"]
    /\ UNCHANGED <<mg_cell, mg_calls, MgOthers>>

\* MANAGER_INSTANCE.get_or_init: a set cell is returned as it is and the
\* closure is not run; an empty cell makes this thread run the closure; a
\* thread waits while another one runs it
MgGetOrInit(t) ==
    /\ mg_threads[t].pc = "get_or_init"
    /\ mg_cell.state # "running"
    /\ mg_cell' = IF mg_cell.state = "set" THEN mg_cell
                  ELSE MgCell("running", t, mg_threads[t].path)
    /\ mg_threads' = [mg_threads EXCEPT
                        ![t].pc = IF mg_cell.state = "set" THEN "idle" ELSE "new",
                        ![t].res = IF mg_cell.state = "set" THEN "Unit" ELSE "none"]
    /\ UNCHANGED <<mg_root_node, mg_calls, MgOthers>>

\* TrieDBManager::new inside the closure: PathDB::new(..).expect(..)
MgNew(t, opened) ==
    /\ mg_threads[t].pc = "new"
    /\ mg_cell' = IF opened THEN MgCell("set", t, mg_threads[t].path)
                  ELSE MgCell("empty", 0, "")
    /\ mg_threads' = [mg_threads EXCEPT
                        ![t].pc = "idle",
                        ![t].res = IF opened THEN "Unit" ELSE "Panic"]
    /\ UNCHANGED <<mg_root_node, mg_calls, MgOthers>>

\* get_global_triedb(): get_manager().get_triedb()
MgGetGlobalTriedb(t) ==
    /\ mg_threads[t].pc = "idle"
    /\ mg_calls < MaxManagerCalls
    /\ mg_threads' = [mg_threads EXCEPT ![t] =
                        IF mg_cell.state = "set"
                        THEN MgThread("idle", "get", mg_cell.path, "TrieDB")
                        ELSE MgThread("idle", "get", "", "Panic")]
    /\ mg_calls' = mg_calls + 1
    /\ UNCHANGED <<mg_cell, mg_root_node, MgOthers>>

MgNext ==
    \/ \E t \in MgThreads, path \in MgPaths : MgInitCall(t, path)
    \/ \E t \in MgThreads : MgInitRoot(t)
    \/ \E t \in MgThreads : MgGetOrInit(t)
    \/ \E t \in MgThreads, opened \in BOOLEAN : MgNew(t, opened)
    \/ \E t \in MgThreads : MgGetGlobalTriedb(t)

----------------------------------------------------------------------------
(* SpecPersist: one thread calls latest_persist_state while another flushes *)
(* blocks 1, 2, ... with commit_difflayer.  A step is one critical section  *)
(* of the cache mutex or one RocksDB call.                                  *)

MaxPersistBlock == 3
MaxPersistReads == 2

PsReader(pc, block_number_bytes, state_root_bytes) ==
    [pc |-> pc, block_number_bytes |-> block_number_bytes,
     state_root_bytes |-> state_root_bytes]

PsNoResult == [st |-> "none", val |-> None]

PsInitVars ==
    /\ ps_cache = <<>>
    /\ ps_db = [k \in PDBKeys |-> None]
    /\ ps_reader = PsReader("idle", None, None)
    /\ ps_writer = [pc |-> "idle", block_number |-> 0, difflayer |-> None]
    /\ ps_flushed = 0
    /\ ps_reads = 0
    /\ ps_last = PsNoResult

\* the end of latest_persist_state: both values or "not found"
PsResult(block_number_bytes, state_root_bytes) ==
    IF IsSome(block_number_bytes) /\ IsSome(state_root_bytes)
    THEN IF Len(Unwrap(block_number_bytes)) # 8 THEN Panic
         ELSE Ok(<<from_le_bytes(Unwrap(block_number_bytes)),
                   Unwrap(state_root_bytes)>>)
    ELSE Err

\* latest_persist_state, self.get(TRIE_STATE_BLOCK_NUMBER_KEY): cache.peek
PsNumberPeek ==
    /\ ps_reader.pc = "idle"
    /\ ps_reads < MaxPersistReads
    /\ ps_reads' = ps_reads + 1
    /\ ps_reader' = IF IsSome(CachePeek(ps_cache, TRIE_STATE_BLOCK_NUMBER_KEY))
                    THEN PsReader("root_peek",
                                  Unwrap(CachePeek(ps_cache, TRIE_STATE_BLOCK_NUMBER_KEY)),
                                  None)
                    ELSE PsReader("number_read", None, None)
    /\ ps_last' = PsNoResult
    /\ UNCHANGED <<ps_cache, ps_db, ps_writer, ps_flushed, PsOthers>>

\* get_raw of the block number: db.get_cf_opt
PsNumberRead ==
    /\ ps_reader.pc = "number_read"
    /\ ps_reader' = IF IsSome(ps_db[TRIE_STATE_BLOCK_NUMBER_KEY])
                    THEN PsReader("number_insert", ps_db[TRIE_STATE_BLOCK_NUMBER_KEY], None)
                    ELSE PsReader("root_peek", None, None)
    /\ UNCHANGED <<ps_cache, ps_db, ps_writer, ps_flushed, ps_reads, ps_last, PsOthers>>

\* get_raw of the block number: the value read is cached
PsNumberInsert ==
    /\ ps_reader.pc = "number_insert"
    /\ ps_cache' = CacheInsert(ps_cache, CacheSize, TRIE_STATE_BLOCK_NUMBER_KEY,
                               ps_reader.block_number_bytes)
    /\ ps_reader' = [ps_reader EXCEPT !.pc = "root_peek"]
    /\ UNCHANGED <<ps_db, ps_writer, ps_flushed, ps_reads, ps_last, PsOthers>>

PsReturned(state_root_bytes) ==
    /\ ps_last' = PsResult(ps_reader.block_number_bytes, state_root_bytes)
    /\ ps_reader' = PsReader("idle", None, None)

\* self.get(TRIE_STATE_ROOT_KEY): cache.peek; a hit ends the call
PsRootPeek ==
    /\ ps_reader.pc = "root_peek"
    /\ IF IsSome(CachePeek(ps_cache, TRIE_STATE_ROOT_KEY))
       THEN PsReturned(Unwrap(CachePeek(ps_cache, TRIE_STATE_ROOT_KEY)))
       ELSE /\ ps_reader' = [ps_reader EXCEPT !.pc = "root_read"]
            /\ ps_last' = ps_last
    /\ UNCHANGED <<ps_cache, ps_db, ps_writer, ps_flushed, ps_reads, PsOthers>>

\* get_raw of the state root: db.get_cf_opt; Ok(None) ends the call
PsRootRead ==
    /\ ps_reader.pc = "root_read"
    /\ IF IsSome(ps_db[TRIE_STATE_ROOT_KEY])
       THEN /\ ps_reader' = [ps_reader EXCEPT !.pc = "root_insert",
                                              !.state_root_bytes = ps_db[TRIE_STATE_ROOT_KEY]]
            /\ ps_last' = ps_last
       ELSE PsReturned(None)
    /\ UNCHANGED <<ps_cache, ps_db, ps_writer, ps_flushed, ps_reads, PsOthers>>

\* get_raw of the state root: the value read is cached, the call returns
PsRootInsert ==
    /\ ps_reader.pc = "root_insert"
    /\ ps_cache' = CacheInsert(ps_cache, CacheSize, TRIE_STATE_ROOT_KEY,
                               ps_reader.state_root_bytes)
    /\ PsReturned(ps_reader.state_root_bytes)
    /\ UNCHANGED <<ps_db, ps_writer, ps_flushed, ps_reads, PsOthers>>

\* commit_difflayer(n, root, difflayer), critical section: the two markers
\* and the nodes of the layer go into the cache
PsCommitCache ==
    \E difflayer \in {None} \cup { Some(l) : l \in RcLayers }, order \in Orders(RcKeys) :
        /\ ps_writer.pc = "idle"
        /\ ps_flushed < MaxPersistBlock
        /\ ps_flushed' = ps_flushed + 1
        /\ ps_cache' = commit_difflayer_cache(ps_cache, CacheSize, ps_flushed + 1,
                                              PDBRootOf(ps_flushed + 1), difflayer, order)
        /\ ps_writer' = [pc |-> "batch", block_number |-> ps_flushed + 1,
                         difflayer |-> difflayer]
        /\ UNCHANGED <<ps_db, ps_reader, ps_reads, ps_last, PsOthers>>

\* commit_difflayer: db.write_opt(batch), one atomic write
PsCommitWrite ==
    /\ ps_writer.pc = "batch"
    /\ ps_db' = commit_difflayer_batch(ps_db, ps_writer.block_number,
                                       PDBRootOf(ps_writer.block_number),
                                       ps_writer.difflayer)
    /\ ps_writer' = [pc |-> "idle", block_number |-> 0, difflayer |-> None]
    /\ UNCHANGED <<ps_cache, ps_reader, ps_flushed, ps_reads, ps_last, PsOthers>>

\* clear_cache()
PsClearCache ==
    /\ ps_cache # <<>>
    /\ ps_cache' = <<>>
    /\ UNCHANGED <<ps_db, ps_reader, ps_writer, ps_flushed, ps_reads, ps_last, PsOthers>>

PsNext ==
    \/ PsNumberPeek
    \/ PsNumberRead
    \/ PsNumberInsert
    \/ PsRootPeek
    \/ PsRootRead
    \/ PsRootInsert
    \/ PsCommitCache
    \/ PsCommitWrite
    \/ PsClearCache

----------------------------------------------------------------------------
(* SpecUpdate: one driver of triedb.rs and its clones.  The caller runs     *)
(* update_and_commit on any state it knows (the empty state or the state of *)
(* an earlier block, so also on forks), keeps the node sets of each block   *)
(* as a pending layer, and may clear the cache.                             *)

MaxUpdateCalls == 3

UcBackend == EmptyMap

UcState(state_root, layers) == [state_root |-> state_root, layers |-> layers]

UcDifflayer(at) == IF at.layers = <<>> THEN None ELSE Some(at.layers)

UcInputs ==
    { DrvInput(Map1(a1, Some(DrvAccount(1))), {}, Map1(a1, Map1(s1, Some(1)))),
      DrvInput(Map1(a1, Some(DrvAccount(2))), {}, EmptyMap),
      DrvInput(Map1(a1, None), {}, EmptyMap),
      DrvInput(Map1(a1, Some(DrvAccount(2))), {a1}, Map1(a1, Map1(s2, Some(2)))),
      DrvInput(Map2(a1, Some(DrvAccount(2)), a2, Some(DrvAccount(1))), {},
               Map1(a2, Map1(s1, Some(1)))) }

UcLast(op, at, input, res) == [op |-> op, at |-> at, input |-> input, res |-> res]

UcInitVars ==
    /\ uc_cache = EmptyMap
    /\ uc_tdb = TrieDB_new
    /\ uc_states = {UcState(EMPTY_ROOT_HASH, <<>>)}
    /\ uc_calls = 0
    /\ uc_last = UcLast("new", UcState(EMPTY_ROOT_HASH, <<>>), <<>>, Ok(<<>>))

\* TrieDB::clone: every field is new but db and storage_root_cache
TrieDB_clone(tdb) == TrieDB_new

\* the state of the block a successful call made: its node sets are the
\* newest layer over the layers of the state it was built on
UcBlock(at, out) ==
    UcState(out.root_hash,
            IF IsSome(wrap_difflayer(out.node_set, EmptyMap))
            THEN <<Unwrap(wrap_difflayer(out.node_set, EmptyMap))>> \o at.layers
            ELSE at.layers)

UcReturned(at, input, r) ==
    /\ uc_tdb' = IF r.res.st = "Panic" THEN TrieDB_clone(uc_tdb) ELSE r.tdb
    /\ uc_cache' = r.cache
    /\ uc_states' = IF r.res.st = "Ok"
                    THEN uc_states \cup {UcBlock(at, Unwrap(r.res.val))}
                    ELSE uc_states
    /\ uc_calls' = uc_calls + 1
    /\ uc_last' = UcLast("update_and_commit", at, input, r.res)

\* update_and_commit on a state the caller knows
UcUpdateAndCommit ==
    /\ uc_calls < MaxUpdateCalls
    /\ \E at \in uc_states, input \in UcInputs :
         UcReturned(at, input,
                    update_and_commit(uc_tdb, uc_cache, UcBackend, at.state_root,
                                      UcDifflayer(at), input.states,
                                      input.states_rebuild, input.storage_states))
    /\ UNCHANGED UcOthers

\* the caller goes on with a clone of the driver
UcClone ==
    /\ uc_last.op # "clone"
    /\ uc_tdb' = TrieDB_clone(uc_tdb)
    /\ uc_last' = UcLast("clone", uc_last.at, <<>>, Ok(<<>>))
    /\ UNCHANGED <<uc_cache, uc_states, uc_calls, UcOthers>>

\* TrieDB::clear_cache
UcClearCache ==
    /\ DOMAIN uc_cache # {}
    /\ uc_cache' = EmptyMap
    /\ uc_last' = UcLast("clear_cache", uc_last.at, <<>>, Ok(<<>>))
    /\ UNCHANGED <<uc_tdb, uc_states, uc_calls, UcOthers>>

UcNext ==
    \/ UcUpdateAndCommit
    \/ UcClone
    \/ UcClearCache

----------------------------------------------------------------------------
(* SpecCommitLocks: commit_children with parallel = true.  The calling      *)
(* thread reads the owner under the parent NodeSet lock, the child tasks    *)
(* commit their branch into a NodeSet of their own and merge it into the    *)
(* parent set, and the caller stores the full node when all have returned.  *)

PcChildren == {"c1", "c2", "c3"}
MaxChildStores == 2

PcMain == "main"
PcThreads == {PcMain} \cup PcChildren

\* the locks: the parent NodeSet (self.nodes) and the child_set of each task
PcParentSet == "parent"
PcChildSet(t) == t
PcLocks == {PcParentSet} \cup {PcChildSet(t) : t \in PcChildren}

PcHolds(th, l) == \E i \in 1..Len(pc_held[th]) : pc_held[th][i] = l

\* Mutex::lock returns when no thread holds the mutex
PcFree(l) == \A th \in PcThreads : ~PcHolds(th, l)

PcAcquire(held, th, l) == [held EXCEPT ![th] = Append(@, l)]

\* a guard goes out of scope
PcDrop(held, th, l) == [held EXCEPT ![th] = SelectSeq(@, LAMBDA x : x # l)]

PcKeep(held, th, l) == held

\* line 132: the guard of the owner read ends with its block
PcOwnerGuardEnds(held, th, l) == PcDrop(held, th, l)

PcInitVars ==
    /\ pc_main = "begin"
    /\ pc_task = [t \in PcChildren |-> "ready"]
    /\ pc_todo = [t \in PcChildren |-> 0]
    /\ pc_held = [th \in PcThreads |-> <<>>]
    /\ pc_size = [l \in PcLocks |-> 0]

\* commit_children, line 130: let guard = self.nodes.lock().unwrap()
PcOwnerLock ==
    /\ pc_main = "begin"
    /\ PcFree(PcParentSet)
    /\ pc_held' = PcAcquire(pc_held, PcMain, PcParentSet)
    /\ pc_main' = "owner"
    /\ UNCHANGED <<pc_task, pc_todo, pc_size, PcOthers>>

\* commit_children, lines 131-132: guard.owner, end of the block
PcOwnerRead ==
    /\ pc_main = "owner"
    /\ pc_held' = PcOwnerGuardEnds(pc_held, PcMain, PcParentSet)
    /\ pc_main' = "par_iter"
    /\ UNCHANGED <<pc_task, pc_todo, pc_size, PcOthers>>

\* lines 138-158: a task starts on a non-empty child with a new child_set;
\* its commit_internal (parallel = false) makes some number of stores
PcChildStart(t) ==
    /\ pc_main = "par_iter"
    /\ pc_task[t] = "ready"
    /\ \E n \in 0..MaxChildStores : pc_todo' = [pc_todo EXCEPT ![t] = n]
    /\ pc_task' = [pc_task EXCEPT ![t] = "commit"]
    /\ UNCHANGED <<pc_main, pc_held, pc_size, PcOthers>>

\* store of the child committer, lines 211 / 220: self.nodes is the child_set
PcStoreLock(t) ==
    /\ pc_task[t] = "commit"
    /\ pc_todo[t] > 0
    /\ PcFree(PcChildSet(t))
    /\ pc_held' = PcAcquire(pc_held, t, PcChildSet(t))
    /\ pc_task' = [pc_task EXCEPT ![t] = "store"]
    /\ UNCHANGED <<pc_main, pc_todo, pc_size, PcOthers>>

\* store, lines 212-213 / 221-222: add_node, end of the block
PcStoreAdd(t) ==
    /\ pc_task[t] = "store"
    /\ pc_size' = [pc_size EXCEPT ![PcChildSet(t)] = @ + 1]
    /\ pc_held' = PcDrop(pc_held, t, PcChildSet(t))
    /\ pc_todo' = [pc_todo EXCEPT ![t] = @ - 1]
    /\ pc_task' = [pc_task EXCEPT ![t] = "commit"]
    /\ UNCHANGED <<pc_main, PcOthers>>

\* line 161: let nodeset = child_committer.nodes.lock().unwrap()
PcLockChild(t) ==
    /\ pc_task[t] = "commit"
    /\ pc_todo[t] = 0
    /\ PcFree(PcChildSet(t))
    /\ pc_held' = PcAcquire(pc_held, t, PcChildSet(t))
    /\ pc_task' = [pc_task EXCEPT ![t] = "child_locked"]
    /\ UNCHANGED <<pc_main, pc_todo, pc_size, PcOthers>>

\* line 162: let mut nodeset_parent = self.nodes.lock().unwrap()
PcLockParent(t) ==
    /\ pc_task[t] = "child_locked"
    /\ PcFree(PcParentSet)
    /\ pc_held' = PcAcquire(pc_held, t, PcParentSet)
    /\ pc_task' = [pc_task EXCEPT ![t] = "merge"]
    /\ UNCHANGED <<pc_main, pc_todo, pc_size, PcOthers>>

\* lines 163-164: nodeset_parent.merge_set(&nodeset)
PcMergeSet(t) ==
    /\ pc_task[t] = "merge"
    /\ pc_size' = [pc_size EXCEPT ![PcParentSet] = @ + pc_size[PcChildSet(t)]]
    /\ pc_task' = [pc_task EXCEPT ![t] = "merged"]
    /\ UNCHANGED <<pc_main, pc_todo, pc_held, PcOthers>>

\* line 165: the guards end in the reverse order of their declaration
PcDropParent(t) ==
    /\ pc_task[t] = "merged"
    /\ pc_held' = PcDrop(pc_held, t, PcParentSet)
    /\ pc_task' = [pc_task EXCEPT ![t] = "parent_dropped"]
    /\ UNCHANGED <<pc_main, pc_todo, pc_size, PcOthers>>

\* lines 165-166: the child guard ends, the task returns its node
PcDropChild(t) ==
    /\ pc_task[t] = "parent_dropped"
    /\ pc_held' = PcDrop(pc_held, t, PcChildSet(t))
    /\ pc_task' = [pc_task EXCEPT ![t] = "done"]
    /\ UNCHANGED <<pc_main, pc_todo, pc_size, PcOthers>>

\* line 168: collect returns when every task has returned
PcCollect ==
    /\ pc_main = "par_iter"
    /\ \A t \in PcChildren : pc_task[t] = "done"
    /\ pc_main' = "collected"
    /\ UNCHANGED <<pc_task, pc_todo, pc_held, pc_size, PcOthers>>

\* commit_internal, line 94: store of the full node, lock of line 220
PcParentStoreLock ==
    /\ pc_main = "collected"
    /\ PcFree(PcParentSet)
    /\ pc_held' = PcAcquire(pc_held, PcMain, PcParentSet)
    /\ pc_main' = "store"
    /\ UNCHANGED <<pc_task, pc_todo, pc_size, PcOthers>>

\* store, lines 221-222, and the return of commit
PcParentStoreAdd ==
    /\ pc_main = "store"
    /\ pc_size' = [pc_size EXCEPT ![PcParentSet] = @ + 1]
    /\ pc_held' = PcDrop(pc_held, PcMain, PcParentSet)
    /\ pc_main' = "returned"
    /\ UNCHANGED <<pc_task, pc_todo, PcOthers>>

PcMainStep ==
    \/ PcOwnerLock
    \/ PcOwnerRead
    \/ PcCollect
    \/ PcParentStoreLock
    \/ PcParentStoreAdd

PcTaskStep(t) ==
    \/ PcChildStart(t)
    \/ PcStoreLock(t)
    \/ PcStoreAdd(t)
    \/ PcLockChild(t)
    \/ PcLockParent(t)
    \/ PcMergeSet(t)
    \/ PcDropParent(t)
    \/ PcDropChild(t)

PcNext ==
    \/ PcMainStep
    \/ \E t \in PcChildren : PcTaskStep(t)

\* the rayon pool runs every task that can take a step, and the caller
PcFairness ==
    /\ WF_vars(PcMainStep)
    /\ \A t \in PcChildren : WF_vars(PcTaskStep(t))

----------------------------------------------------------------------------
(* SpecSmallTrie: one Trie with one-byte keys and values short enough for  *)
(* a node to be embedded in its parent.  Its callers update and delete     *)
(* keys; a commit hashes the trie with the size rule, collects the NodeSet *)
(* (serially or with parallel child tasks), writes it to the backend and   *)
(* reopens the trie at the new root.                                       *)

MaxSmallOps == 6

\* two keys share their first nibble, the third does not
SmKeys == {<<17>>, <<18>>, <<33>>}

\* a value of one byte, and one of 32 bytes: a leaf that holds the second
\* is never embedded
SmValues == {<<1>>, [i \in 1..32 |-> 7]}

SmNoCall ==
    [op |-> "none", pre |-> None, hashed |-> EmptyNode, parallel |-> FALSE,
     hash |-> EMPTY_ROOT_HASH, set |-> None]

SmInitVars ==
    /\ sm_db = EmptyMap
    /\ sm_trie = Trie_new(EMPTY_ROOT_HASH, B256_ZERO, None)
    /\ sm_last = SmNoCall
    /\ sm_steps = 0

SmWritten(op, r) ==
    /\ sm_steps < MaxSmallOps
    /\ sm_steps' = sm_steps + 1
    /\ sm_trie' = r.trie
    /\ sm_last' = [SmNoCall EXCEPT !.op = op]

SmUpdate ==
    \E k \in SmKeys, v \in SmValues :
        /\ SmWritten("update", Trie_update(sm_trie, sm_db, k, v))
        /\ UNCHANGED <<sm_db, SmOthers>>

SmDelete ==
    \E k \in SmKeys :
        /\ SmWritten("delete", Trie_delete(sm_trie, sm_db, k))
        /\ UNCHANGED <<sm_db, SmOthers>>

\* The call record of a commit of the hashed root: r is [hash, set]
SmCommitted(hashed, parallel, r) ==
    /\ sm_steps < MaxSmallOps
    /\ sm_steps' = sm_steps + 1
    /\ sm_last' = [op |-> "commit", pre |-> Some(sm_trie), hashed |-> hashed,
                   parallel |-> parallel, hash |-> r.hash, set |-> r.set]
    /\ sm_trie' = Trie_new(r.hash, B256_ZERO, None)
    /\ sm_db' = TtWritten(sm_db, B256_ZERO, r.set)

SmCommit ==
    \E parallel \in BOOLEAN :
        \E sched \in TtSchedules(parallel, HashedSmall(sm_trie.root, TRUE)) :
            /\ SmCommitted(HashedSmall(sm_trie.root, TRUE), parallel,
                           CommitHashedRoot(sm_trie, HashedSmall(sm_trie.root, TRUE),
                                            TRUE, parallel, sched))
            /\ UNCHANGED SmOthers

SmNext == SmUpdate \/ SmDelete \/ SmCommit

----------------------------------------------------------------------------
(* The specifications *)

InitAll == DLInitVars /\ PDBInitVars /\ MDBInitVars /\ DrvInitVars /\ TrInitVars
           /\ TtInitVars /\ RdInitVars /\ TkInitVars /\ KvInitVars
           /\ RcInitVars /\ CaInitVars /\ NsInitVars /\ MgInitVars
           /\ PsInitVars /\ UcInitVars /\ PcInitVars /\ SmInitVars

Spec == InitAll /\ [][DrvNext]_vars

SpecLayers == InitAll /\ [][DLNext]_vars

SpecPathDB == InitAll /\ [][PDBNext]_vars

SpecMemDB == InitAll /\ [][MDBNext]_vars

SpecTracer == InitAll /\ [][TrNext]_vars

SpecTrie == InitAll /\ [][TtNext]_vars

SpecReads == InitAll /\ [][RdNext]_vars

SpecTasks == InitAll /\ [][TkNext]_vars

SpecPathKV == InitAll /\ [][KvNext]_vars

SpecPathRace == InitAll /\ [][RcNext]_vars

SpecCalls == InitAll /\ [][CaNext]_vars

SpecNodeSet == InitAll /\ [][NsNext]_vars

SpecManager == InitAll /\ [][MgNext]_vars

SpecPersist == InitAll /\ [][PsNext]_vars

SpecUpdate == InitAll /\ [][UcNext]_vars

SpecCommitLocks == InitAll /\ [][PcNext]_vars

SpecSmallTrie == InitAll /\ [][SmNext]_vars

SpecCommitLocksFair == SpecCommitLocks /\ PcFairness

----------------------------------------------------------------------------
(* C1 *)

\* The indices of the layers that hold an entry for key k.
LayersHolding(layers, k) ==
    { i \in 1..Len(layers) : k \in DOMAIN layers[i].diff_nodes }

MinOf(S) == CHOOSE m \in S : \A n \in S : m <= n

\* C1: a node lookup through DiffLayers returns the entry of the first layer
\* in sequence order (index 0 = newest) that contains the key; a deleted
\* entry (blob None or empty) in that layer makes the key absent even when
\* an older layer or the backend holds a blob for it; the backend is read
\* only when no layer contains the key.
C1_FirstLayerWins ==
    dl_res.key \in DLKeys =>
        LET k == dl_res.key
            holding == LayersHolding(dl_layers, k)
        IN IF holding = {}
           THEN /\ dl_res.backend_read
                /\ dl_res.blob = (IF k \in DOMAIN dl_db THEN Some(dl_db[k]) ELSE None)
           ELSE LET e == dl_layers[MinOf(holding)].diff_nodes[k]
                IN /\ ~dl_res.backend_read
                   /\ dl_res.node = Some(e)
                   /\ dl_res.blob =
                        (IF e.blob = None \/ e.blob = Some(<<>>)
                         THEN None ELSE e.blob)

\* A lookup that found a deleted entry in the newest layer while an older
\* layer and the backend both hold a blob for the key.
C1_Witness ==
    /\ dl_res.key \in DLKeys
    /\ Len(dl_layers) = 2
    /\ dl_res.key \in DOMAIN dl_layers[1].diff_nodes
    /\ TrieNode_is_deleted(dl_layers[1].diff_nodes[dl_res.key])
    /\ dl_res.key \in DOMAIN dl_layers[2].diff_nodes
    /\ ~TrieNode_is_deleted(dl_layers[2].diff_nodes[dl_res.key])
    /\ dl_res.key \in DOMAIN dl_db
    /\ dl_res.blob = None

----------------------------------------------------------------------------
(* The driver claims are stated on the state right after a successful      *)
(* batch_update_and_commit: the call's inputs and outputs are in drv_last, *)
(* the new block is the head, and the view the call was made on is the     *)
(* backend with the pending layers below the new one.                      *)

LastBatchOk == drv_last.op = "batch_update_and_commit" /\ drv_last.res.st = "Ok"

LastIn == drv_last.input
LastOut == Unwrap(drv_last.res.val)

PreDifflayer == DrvDifflayer(Tail(drv_chain))
PostDifflayer == DrvDifflayer(drv_chain)

AccountBefore(hashed_address) ==
    AccountAt(drv_last.root_hash, PreDifflayer, drv_db, hashed_address)

AccountAfter(hashed_address) ==
    AccountAt(drv_head.state_root, PostDifflayer, drv_db, hashed_address)

\* The hash of the node stored at the root path of an owner's storage trie
\* in a view, EMPTY_ROOT when there is none
StoredStorageRoot(difflayer, db, hashed_address) ==
    LET r == ReadNode(difflayer, db, storage_trie_node_key(hashed_address, <<>>))
    IN IF IsSome(r.blob) THEN keccak256(Unwrap(r.blob)) ELSE EMPTY_ROOT_HASH

\* The root of the storage trie opened at prior over the view the call was
\* made on, after the call's changes for the owner
StorageRootFrom(prior, hashed_address) ==
    Trie_hash(UpdateStorage([trie |-> StateTrie_new(prior, hashed_address, PreDifflayer),
                             res |-> Ok(<<>>)],
                            drv_db, LastIn.storage_states[hashed_address],
                            DOMAIN LastIn.storage_states[hashed_address]).trie)

\* The same batch on a fresh driver with other inputs
Rerun(states, states_rebuild, storage_states) ==
    batch_update_and_commit(TrieDB_new, drv_db, drv_flat, drv_last.root_hash, PreDifflayer,
                            states, states_rebuild, storage_states).res

\* The pending layers the call was made over that hold a storage root for
\* the owner, by position: 1 is the newest
PendingHolding(hashed_address) ==
    {i \in 1..Len(Tail(drv_chain)) :
        /\ IsSome(Tail(drv_chain)[i].difflayer)
        /\ hashed_address \in DOMAIN Unwrap(Tail(drv_chain)[i].difflayer).diff_storage_roots}

\* The prior storage root by the order of the claim: the newest pending
\* layer that holds one, else the flat table, else the account in the
\* account trie, else EMPTY_ROOT
ExpectedPrior(hashed_address) ==
    IF PendingHolding(hashed_address) # {}
    THEN Unwrap(Tail(drv_chain)[MinOf(PendingHolding(hashed_address))].difflayer)
             .diff_storage_roots[hashed_address]
    ELSE IF hashed_address \in DOMAIN drv_flat THEN drv_flat[hashed_address]
    ELSE IF IsSome(AccountBefore(hashed_address))
    THEN Unwrap(AccountBefore(hashed_address)).storage_root
    ELSE EMPTY_ROOT_HASH

\* The root the call opened the owner's storage trie at: the storage root
\* of the account entry as supplied for a rebuilt owner, the prior storage
\* root otherwise
OpenedAt(hashed_address) ==
    IF hashed_address \in LastIn.states_rebuild
    THEN Unwrap(LastIn.states[hashed_address]).storage_root
    ELSE ExpectedPrior(hashed_address)

----------------------------------------------------------------------------
(* C2 *)

\* The backend after the flush of a block
Flushed(db, block) ==
    flush_trie_nodes(db, block.block_number, block.state_root, block.difflayer, FALSE).db

\* What a batch on a fresh driver returns to the caller: the status and
\* the new root
BatchRoot(root_hash, difflayer, db, input) ==
    LET r == batch_update_and_commit(TrieDB_new, db, drv_flat, root_hash, difflayer,
                                     input.states, input.states_rebuild,
                                     input.storage_states).res
    IN IF r.st = "Ok" THEN <<r.st, Unwrap(r.val).root_hash>> ELSE <<r.st>>

\* C2: when one layer L is pending over the backend B and R is the root of
\* L's block, a fresh driver at R over [L] and B and a fresh driver at R
\* over no layers and B after flush(L) read the same accounts and storage
\* values, and the same batch gives the same new root on both.  The backend
\* has no flat storage-root table.
C2_LayeredEqualsFlushed ==
    (/\ Len(drv_chain) = 1
     /\ IsSome(drv_chain[1].difflayer)
     /\ DOMAIN drv_flat = {})
    => LET R == drv_chain[1].state_root
           L == Some(<<Unwrap(drv_chain[1].difflayer)>>)
           B == drv_db
           F == Flushed(drv_db, drv_chain[1])
       IN /\ \A h \in DrvOwners : AccountAt(R, L, B, h) = AccountAt(R, None, F, h)
          /\ \A h \in DrvOwners, k \in DrvSlots :
                StorageAt(R, L, B, h, k) = StorageAt(R, None, F, h, k)
          /\ \A input \in DrvInputs(AccountAt(R, L, B, a1)) :
                BatchRoot(R, L, B, input) = BatchRoot(R, None, F, input)

\* The pending layer comes from a block that deleted account a1, which
\* existed with storage before, and the backend holds the earlier block.
C2_Witness ==
    /\ LastBatchOk
    /\ Len(drv_chain) = 1
    /\ DOMAIN drv_flat = {}
    /\ a1 \in DOMAIN LastIn.states
    /\ ~IsSome(LastIn.states[a1])
    /\ IsSome(AccountBefore(a1))
    /\ ~IsSome(AccountAfter(a1))

----------------------------------------------------------------------------
(* C6 *)

\* C6: after a successful batch_update_and_commit, every owner with storage
\* changes has an account at the new root whose storage_root is the root
\* hash of the owner's storage trie with the changes of the call applied,
\* and the returned updated_storage_roots hold that hash for the owner.
\* When the trie was opened at a root other than the hash of the empty
\* string, it is also the hash of the root node stored for the owner in the
\* new view.
C6_StorageRootCrossLinked ==
    LastBatchOk =>
      \A h \in DOMAIN LastIn.storage_states :
         /\ IsSome(AccountAfter(h))
         /\ h \in DOMAIN LastOut.diff_storage_roots
         /\ Unwrap(AccountAfter(h)).storage_root = LastOut.diff_storage_roots[h]
         /\ LastOut.diff_storage_roots[h] = StorageRootFrom(OpenedAt(h), h)
         /\ OpenedAt(h) # KECCAK_EMPTY =>
               LastOut.diff_storage_roots[h] = StoredStorageRoot(PostDifflayer, drv_db, h)

\* a1 had storage changes that left its storage trie non-empty, and the
\* account read back at the new root carries the trie's root hash.
C6_Witness ==
    /\ LastBatchOk
    /\ a1 \in DOMAIN LastIn.storage_states
    /\ IsSome(AccountAfter(a1))
    /\ Unwrap(AccountAfter(a1)).storage_root # EMPTY_ROOT_HASH
    /\ Unwrap(AccountAfter(a1)).storage_root # Unwrap(LastIn.states[a1]).storage_root
    /\ Unwrap(AccountAfter(a1)).storage_root = StoredStorageRoot(PostDifflayer, drv_db, a1)

----------------------------------------------------------------------------
(* C7 *)

----------------------------------------------------------------------------
(* C8 *)

\* C8: after a successful batch_update_and_commit, every owner whose
\* accounts entry is None is absent from the account trie at the new root
\* and the returned updated_storage_roots hold EMPTY_ROOT for it.
C8_DeletedAccountEmptyRoot ==
    LastBatchOk =>
      \A h \in DOMAIN LastIn.states :
         ~IsSome(LastIn.states[h]) =>
            /\ ~IsSome(AccountAfter(h))
            /\ h \in DOMAIN LastOut.diff_storage_roots
            /\ LastOut.diff_storage_roots[h] = EMPTY_ROOT_HASH

\* An account that existed was deleted, and the root returned for it is the
\* hash of the empty string.
C8_Witness ==
    /\ LastBatchOk
    /\ a1 \in DOMAIN LastIn.states
    /\ ~IsSome(LastIn.states[a1])
    /\ IsSome(AccountBefore(a1))
    /\ ~IsSome(AccountAfter(a1))
    /\ LastOut.diff_storage_roots[a1] = KECCAK_EMPTY

----------------------------------------------------------------------------
(* C9 *)

\* C9: after a successful batch_update_and_commit, every rebuilt owner with
\* a Some account entry has the storage root of a trie built from EMPTY_ROOT
\* with the storage entries of this call alone.
C9_RebuildStartsEmpty ==
    LastBatchOk =>
      \A h \in LastIn.states_rebuild :
         (h \in DOMAIN LastIn.states /\ IsSome(LastIn.states[h])) =>
            /\ IsSome(AccountAfter(h))
            /\ Unwrap(AccountAfter(h)).storage_root =
                  IF h \in DOMAIN LastIn.storage_states
                  THEN StorageRootFrom(EMPTY_ROOT_HASH, h)
                  ELSE EMPTY_ROOT_HASH

\* a1 is rebuilt with the account value read before the call, which carries
\* the root of its previous storage.
C9_Witness ==
    /\ LastBatchOk
    /\ a1 \in LastIn.states_rebuild
    /\ IsSome(AccountBefore(a1))
    /\ Unwrap(AccountBefore(a1)).storage_root # EMPTY_ROOT_HASH
    /\ Unwrap(LastIn.states[a1]).storage_root = Unwrap(AccountBefore(a1)).storage_root
    /\ Unwrap(AccountAfter(a1)).storage_root # StorageRootFrom(EMPTY_ROOT_HASH, a1)

----------------------------------------------------------------------------
(* C10 *)

\* The storage changes with every Some(0) given as None
ZeroToNone(storage_states) ==
    [h \in DOMAIN storage_states |->
        [k \in DOMAIN storage_states[h] |->
            IF storage_states[h][k] = Some(0) THEN None ELSE storage_states[h][k]]]

\* The (owner, key) pairs of the call whose change is Some(0)
LastZeroed ==
    {hk \in DrvOwners \X DrvSlots :
        /\ hk[1] \in DOMAIN LastIn.storage_states
        /\ hk[2] \in DOMAIN LastIn.storage_states[hk[1]]
        /\ LastIn.storage_states[hk[1]][hk[2]] = Some(0)}

\* C10: after a successful batch_update_and_commit with a storage change
\* Some(0), the key reads as absent at the new root, and the same call with
\* None in its place gives the same state root and storage roots.
C10_ZeroIsDelete ==
    (LastBatchOk /\ LastZeroed # {}) =>
       /\ \A hk \in LastZeroed :
             StorageAt(drv_head.state_root, PostDifflayer, drv_db, hk[1], hk[2]) = Ok(None)
       /\ Rerun(LastIn.states, LastIn.states_rebuild,
                ZeroToNone(LastIn.storage_states)).st = "Ok"
       /\ Unwrap(Rerun(LastIn.states, LastIn.states_rebuild,
                       ZeroToNone(LastIn.storage_states)).val).root_hash
             = LastOut.root_hash
       /\ Unwrap(Rerun(LastIn.states, LastIn.states_rebuild,
                       ZeroToNone(LastIn.storage_states)).val).diff_storage_roots
             = LastOut.diff_storage_roots

\* The call wrote Some(0) to a key of a1 and succeeded.
C10_Witness ==
    /\ LastBatchOk
    /\ <<a1, s1>> \in LastZeroed
    /\ LastOut.diff_storage_roots[a1] # EMPTY_ROOT_HASH

----------------------------------------------------------------------------
(* C3, C4 *)

DiffKeys(difflayer) ==
    IF IsSome(difflayer) THEN DOMAIN Unwrap(difflayer).diff_nodes ELSE {}

\* What a successful flush(block_number, state_root, difflayer) must leave.
FlushPost(block_number, state_root, difflayer) ==
    /\ latest_persist_state(pdb_cache', CacheSize, pdb_db')
          = Ok(<<block_number, state_root>>)
    /\ \A key \in DiffKeys(difflayer) :
          LET node == Unwrap(difflayer).diff_nodes[key]
          IN get_raw(pdb_cache', pdb_db', key)
               = (IF node.blob = None \/ node.blob = Some(<<>>)
                  THEN None ELSE node.blob)
    /\ \A key \in PDBNodeKeys \ DiffKeys(difflayer) : pdb_db'[key] = pdb_db[key]

\* C3: after a successful flush(block_number, state_root, diff_layer),
\* latest_persist_state() returns (block_number, state_root); a get of every
\* key of the diff layer returns the node's blob, or absence when the node
\* is deleted, whatever was cached for the key before; every other backend
\* key is unchanged, so with no diff layer only the two markers change.
C3_FlushSuccess ==
    [][ \A block_number \in 1..MaxBlockNumber, difflayer \in PDBDifflayerInputs :
          \A order \in PDBOrdersOf(difflayer) :
            ( /\ pdb_last'.op = "commit_difflayer" /\ pdb_last'.ok
              /\ PDBCommitDifflayer(block_number, PDBRootOf(block_number),
                                    difflayer, order, FALSE) )
              => FlushPost(block_number, PDBRootOf(block_number), difflayer) ]_vars

\* A successful flush that deleted a key and wrote another while the cache
\* held a different value for one of the layer's keys.
C3_Witness ==
    /\ pdb_last = PDBLast("commit_difflayer", TRUE, TRUE)
    /\ pdb_db["n1"] = None
    /\ pdb_db["n2"] = Some(<<7>>)
    /\ get_raw(pdb_cache, pdb_db, "n1") = None
    /\ latest_persist_state(pdb_cache, CacheSize, pdb_db).st = "Ok"

\* C4: a flush whose batch write fails changes no later read: get of every
\* key and latest_persist_state return what they returned before the call.
C4_FailedFlushChangesNoRead ==
    [][ \A block_number \in 1..MaxBlockNumber, difflayer \in PDBDifflayerInputs :
          \A order \in PDBOrdersOf(difflayer) :
            ( /\ pdb_last'.op = "commit_difflayer" /\ ~pdb_last'.ok
              /\ PDBCommitDifflayer(block_number, PDBRootOf(block_number),
                                    difflayer, order, TRUE) )
              => /\ \A key \in PDBKeys :
                      get_raw(pdb_cache', pdb_db', key) = get_raw(pdb_cache, pdb_db, key)
                 /\ latest_persist_state(pdb_cache', CacheSize, pdb_db')
                      = latest_persist_state(pdb_cache, CacheSize, pdb_db) ]_vars

\* A failed flush after which the cache answers with the failed layer's
\* marker while RocksDB still holds the previous one.
C4_Witness ==
    /\ pdb_last.op = "commit_difflayer" /\ ~pdb_last.ok
    /\ pdb_db[TRIE_STATE_BLOCK_NUMBER_KEY] = Some(to_le_bytes(1))
    /\ latest_persist_state(pdb_cache, CacheSize, pdb_db) = Ok(<<2, PDBRootOf(2)>>)

----------------------------------------------------------------------------
(* C5 *)

\* C5: operations queued in a batch are invisible to get until batch_commit
\* is called, and batch_commit applies all of them: whenever the writer is
\* outside batch_commit the map equals the map left by the last completed
\* write, and every get, also one issued while batch_commit runs, reads from
\* a map that holds none or all of the batch's operations.
C5_BatchAtomic ==
    /\ mdb_seen.atomic
    /\ (mdb_pc = 0 => mdb_nodes = mdb_pre)
    /\ (mdb_pc > 0 /\ mdb_lock # "write"
           => mdb_nodes \in {mdb_pre, apply_batch(mdb_pre, mdb_ops)})

\* A get issued while batch_commit was applying a batch of two operations
\* returned a value written by that batch once the commit was over.
C5_Witness ==
    /\ mdb_seen.key = "b"
    /\ mdb_seen.waited
    /\ mdb_seen.val = Some(<<2>>)
    /\ "a" \notin DOMAIN mdb_nodes
    /\ mdb_pc = 0
    /\ mdb_batch = <<>>

----------------------------------------------------------------------------
(* C16, C17, C18: the tracer *)

\* The tracer after the first k calls of the history
RECURSIVE TracerAfter(_, _)
TracerAfter(events, k) ==
    IF k = 0 THEN TrieTracer_new
    ELSE LET e == events[k]
             before == TracerAfter(events, k - 1)
         IN CASE e.op = "on_read" -> on_read(before, e.path, TrBlob(e.path))
              [] e.op = "on_insert" -> on_insert(before, e.path)
              [] e.op = "on_delete" -> on_delete(before, e.path)

InNeither(tracer, p) == p \notin tracer.inserts /\ p \notin tracer.deletes

\* The last two calls were first on p, then second on p
LastTwo(first, second, p) ==
    /\ Len(tr_events) >= 2
    /\ tr_events[Len(tr_events) - 1] = [op |-> first, path |-> p]
    /\ tr_events[Len(tr_events)] = [op |-> second, path |-> p]

TracerBeforeLastTwo == TracerAfter(tr_events, Len(tr_events) - 2)

\* C16 as stated: on_insert(p) directly followed by on_delete(p), or
\* on_delete(p) directly followed by on_insert(p), leaves p in neither
\* inserts nor deletes, whatever the tracer held before.
C16_CancelAlways ==
    \A p \in TrPaths :
        (LastTwo("on_insert", "on_delete", p) \/ LastTwo("on_delete", "on_insert", p))
            => InNeither(tr_tracer, p)

\* C16 amended: when p is in neither set before the pair, on_insert(p)
\* followed by on_delete(p), and on_delete(p) followed by on_insert(p),
\* leave p in neither set; in every case the pair insert-delete leaves p
\* out of inserts and the pair delete-insert leaves p out of deletes.
C16_CancelFromNeither ==
    \A p \in TrPaths :
        /\ LastTwo("on_insert", "on_delete", p)
              => /\ p \notin tr_tracer.inserts
                 /\ InNeither(TracerBeforeLastTwo, p) => InNeither(tr_tracer, p)
        /\ LastTwo("on_delete", "on_insert", p)
              => /\ p \notin tr_tracer.deletes
                 /\ InNeither(TracerBeforeLastTwo, p) => InNeither(tr_tracer, p)

\* A pair that cancelled on a tracer that already held other marks
C16_Witness ==
    \E p \in TrPaths :
        /\ LastTwo("on_delete", "on_insert", p)
        /\ InNeither(TracerBeforeLastTwo, p)
        /\ InNeither(tr_tracer, p)
        /\ tr_tracer.deletes # {}

WasRead(p) == \E i \in 1..Len(tr_events) : tr_events[i] = [op |-> "on_read", path |-> p]

\* C17: deleted_nodes() is exactly the deleted paths that are in the
\* access_list; a path that was never read is never returned, whatever was
\* inserted and deleted at it.
C17_DeletedNodesWereRead ==
    /\ deleted_nodes(tr_tracer)
          = { p \in TrPaths : p \in tr_tracer.deletes /\ p \in DOMAIN tr_tracer.access_list }
    /\ \A p \in TrPaths : ~WasRead(p) => p \notin deleted_nodes(tr_tracer)

\* One path read and deleted is returned, another deleted without a read
\* is held back
C17_Witness ==
    \E p, q \in TrPaths :
        /\ WasRead(p) /\ p \in deleted_nodes(tr_tracer)
        /\ ~WasRead(q) /\ q \in tr_tracer.deletes /\ q \notin deleted_nodes(tr_tracer)

\* The position of the last on_insert / on_delete call on p, 0 if none
LastWrite(p) ==
    LET at == { i \in 1..Len(tr_events) :
                  tr_events[i].path = p /\ tr_events[i].op \in {"on_insert", "on_delete"} }
    IN IF at = {} THEN 0 ELSE CHOOSE i \in at : \A j \in at : j <= i

LastWriteIsDelete(p) == LastWrite(p) > 0 /\ tr_events[LastWrite(p)].op = "on_delete"

\* C18 as stated: for any sequence of calls, a path that was read and whose
\* last insert/delete call is on_delete is in deleted_nodes().
C18_ReadThenDeletedIsTombstone ==
    \A p \in TrPaths :
        (WasRead(p) /\ LastWriteIsDelete(p)) => p \in deleted_nodes(tr_tracer)

\* C18 amended: a path that was read, whose last insert/delete call is
\* on_delete, and that was not in inserts when that on_delete was made, is
\* in deleted_nodes().
C18_ReadThenDeletedNotInserted ==
    \A p \in TrPaths :
        (/\ WasRead(p)
         /\ LastWriteIsDelete(p)
         /\ p \notin TracerAfter(tr_events, LastWrite(p) - 1).inserts)
            => p \in deleted_nodes(tr_tracer)

\* A path read, deleted, inserted again and deleted again is a tombstone
C18_Witness ==
    \E p \in TrPaths :
        /\ WasRead(p)
        /\ LastWriteIsDelete(p)
        /\ \E i \in 1..(LastWrite(p) - 1) : tr_events[i] = [op |-> "on_insert", path |-> p]
        /\ p \notin TracerAfter(tr_events, LastWrite(p) - 1).inserts
        /\ p \in deleted_nodes(tr_tracer)

----------------------------------------------------------------------------
(* C19, C20: one trie *)

\* The Merkle Patricia Trie of a set of <<nibbles, value>> pairs, by its
\* definition: no pair is Empty, one pair is a leaf, pairs with a common
\* prefix hang below an extension, and otherwise a branch splits them by
\* their first nibble.
RECURSIVE MptNode(_)
MptNode(pairs) ==
    IF pairs = {} THEN EmptyNode
    ELSE IF Cardinality(pairs) = 1
    THEN LET kv == CHOOSE x \in pairs : TRUE
         IN ShortNode(kv[1], ValueNode(kv[2]), NodeFlag_default)
    ELSE LET one == CHOOSE x \in pairs : TRUE
             common == { n \in 0..Len(one[1]) :
                           \A x \in pairs : Len(x[1]) >= n /\ Take(x[1], n) = Take(one[1], n) }
             c == CHOOSE n \in common : \A k \in common : k <= n
         IN IF c > 0
            THEN ShortNode(Take(one[1], c),
                           MptNode({ <<Drop(x[1], c), x[2]>> : x \in pairs }),
                           NodeFlag_default)
            ELSE FullNode([i \in 1..17 |->
                             IF i = 17 THEN EmptyNode
                             ELSE MptNode({ <<Tail(x[1]), x[2]>> :
                                              x \in { y \in pairs : y[1][1] = i - 1 } })],
                          NodeFlag_default)

\* The root hash that belongs to a mapping hashed address -> account
RootOfMapping(m) ==
    RootHash(HashedNode(MptNode({ <<keybytes_to_hex(k), StateAccount_to_rlp(m[k])>> :
                                    k \in DOMAIN m })))

\* C19: after any sequence of updates and deletes (with gets and commits in
\* between) every call succeeded and the root hash is the root hash of the
\* final mapping, so two sequences that end in the same mapping end in the
\* same root hash.
C19_RootOfFinalMapping ==
    /\ tt_last.got.st = "Ok"
    /\ Trie_hash(tt_trie) = RootOfMapping(tt_map)
    /\ tt_last.op # "none" => tt_last.after = RootOfMapping(tt_map)

\* A mapping of two accounts reached by a delete on a reopened trie
C19_Witness ==
    /\ tt_prev.op = "commit"
    /\ tt_last.op = "delete"
    /\ tt_last.present
    /\ Cardinality(DOMAIN tt_map) = 2
    /\ Trie_hash(tt_trie) = RootOfMapping(tt_map)
    /\ Trie_hash(tt_trie) # tt_last.before

\* C20: on one trie, a get right after update(k, v) returns v; a get right
\* after delete(k) returns absence; the delete of a missing key succeeds and
\* leaves the root hash as it was; and update(k, v) of a key that was not
\* present followed by delete(k) leaves k absent and the root hash equal to
\* the hash before both calls.
C20_UpdateDeleteGet ==
    /\ (tt_prev.op = "update" /\ tt_last.op = "get" /\ tt_last.key = tt_prev.key)
          => tt_last.got = Ok(tt_prev.value)
    /\ (tt_prev.op = "delete" /\ tt_last.op = "get" /\ tt_last.key = tt_prev.key)
          => tt_last.got = Ok(None)
    /\ (tt_last.op = "delete" /\ ~tt_last.present)
          => /\ tt_last.got.st = "Ok"
             /\ tt_last.after = tt_last.before
             /\ \A k \in TtKeys :
                    StateTrie_get_account_with_hash_state(tt_trie, tt_db, k).res
                        = Ok(MapGet(tt_map, k))
    /\ (/\ tt_prev.op = "update" /\ ~tt_prev.present
        /\ tt_last.op = "delete" /\ tt_last.key = tt_prev.key)
          => /\ StateTrie_get_account_with_hash_state(tt_trie, tt_db, tt_last.key).res
                    = Ok(None)
             /\ tt_last.after = tt_prev.before

\* update(k, v) of an absent key and delete(k) on a trie reopened over two
\* other accounts: the root hash is back where it was
C20_Witness ==
    /\ tt_prev.op = "update" /\ ~tt_prev.present
    /\ tt_last.op = "delete" /\ tt_last.key = tt_prev.key
    /\ Cardinality(DOMAIN tt_map) = 2
    /\ tt_db # EmptyMap
    /\ tt_prev.after # tt_prev.before
    /\ tt_last.after = tt_prev.before

----------------------------------------------------------------------------
(* C13, C14, C15: the commit of one trie.  They are stated on the state    *)
(* right after a commit: tt_last holds the trie that was committed (pre),  *)
(* the root hash and the NodeSet the commit returned.                      *)

LastCommit == tt_last.op = "commit"

\* The committed trie with its hashes computed, as the committer walks it
CommittedRoot == HashedNode(Unwrap(tt_last.pre).root)

CommittedTracer == Unwrap(tt_last.pre).tracer

\* The NodeSet a commit returned, an empty one for None
SetOf(set) == IF IsSome(set) THEN Unwrap(set) ELSE NodeSet_new(B256_ZERO)

Range(seq) == { seq[i] : i \in 1..Len(seq) }

\* A list as a multiset: element -> number of occurrences
BagOf(seq) == [x \in Range(seq) |-> Cardinality({ i \in 1..Len(seq) : seq[i] = x })]

\* The commit of the last committed trie with parallel child tasks that
\* merge in the order sched, and the serial one
ParallelCommit(sched) ==
    CommitHashedRoot(Unwrap(tt_last.pre), CommittedRoot, TRUE, TRUE, sched)

SerialCommit == CommitHashedRoot(Unwrap(tt_last.pre), CommittedRoot, TRUE, FALSE, <<>>)

SameCommit(a, b) ==
    /\ a.hash = b.hash
    /\ IsSome(a.set) = IsSome(b.set)
    /\ SetOf(a.set).owner = SetOf(b.set).owner
    /\ SetOf(a.set).nodes = SetOf(b.set).nodes
    /\ SetOf(a.set).updates = SetOf(b.set).updates
    /\ SetOf(a.set).deletes = SetOf(b.set).deletes
    /\ BagOf(SetOf(a.set).leaves) = BagOf(SetOf(b.set).leaves)

\* C13: the commit of a trie with parallel = true gives, under every order
\* in which the child tasks merge, the root hash, the path -> node map, the
\* updates and deletes counters and the multiset of leaves of the commit
\* with parallel = false; so did the commit that was made.
C13_ParallelCommitSameSet ==
    LastCommit =>
        /\ \A sched \in TtSchedules(TRUE, CommittedRoot) :
              SameCommit(ParallelCommit(sched), SerialCommit)
        /\ SameCommit([hash |-> tt_last.after, set |-> tt_last.set], SerialCommit)

\* A parallel commit of a branch root with two dirty children, where a
\* merge order lists the leaves in another order than the serial commit
C13_Witness ==
    /\ LastCommit
    /\ tt_last.parallel
    /\ CommittedRoot.t = "full"
    /\ Cardinality({ i \in 1..16 : Node_cache(CommittedRoot.children[i]).dirty }) >= 2
    /\ SetOf(tt_last.set).updates >= 3
    /\ \E sched \in TtSchedules(TRUE, CommittedRoot) :
          SetOf(ParallelCommit(sched).set).leaves # SetOf(SerialCommit.set).leaves

\* The paths of the nodes of a hashed trie that are not clean: a node with
\* a cached hash and dirty = false, a Hash reference and a value hold none
RECURSIVE DirtyPaths(_, _)
DirtyPaths(n, path) ==
    CASE n.t = "short" ->
            IF IsSome(n.flags.hash) /\ ~n.flags.dirty THEN {}
            ELSE {path} \cup DirtyPaths(n.val, path \o n.key)
      [] n.t = "full" ->
            IF IsSome(n.flags.hash) /\ ~n.flags.dirty THEN {}
            ELSE {path} \cup UNION { DirtyPaths(n.children[i + 1], Append(path, i)) :
                                       i \in 0..15 }
      [] OTHER -> {}

\* C14: the NodeSet of a commit holds exactly the paths of the dirty nodes
\* and the effective deletes: every dirty node has one entry, a node entry,
\* at its path; every effective delete has one deleted entry; clean nodes,
\* and what lies below them or below an unresolved Hash reference, have
\* none; and the counters count each entry once.
C14_NodeSetIsDirtyPaths ==
    LastCommit =>
        LET set == SetOf(tt_last.set)
            dirty == DirtyPaths(CommittedRoot, <<>>)
            gone == deleted_nodes(CommittedTracer)
        IN /\ DOMAIN set.nodes = dirty \cup gone
           /\ dirty \cap gone = {}
           /\ \A p \in dirty : ~TrieNode_is_deleted(set.nodes[p])
           /\ \A p \in gone : TrieNode_is_deleted(set.nodes[p])
           /\ set.updates = Cardinality(dirty)
           /\ set.deletes = Cardinality(gone)
           /\ IsSome(tt_last.set) <=> (dirty \cup gone # {})

\* A commit with dirty nodes, effective deletes and an unresolved Hash
\* reference below the dirty root
C14_Witness ==
    /\ LastCommit
    /\ DirtyPaths(CommittedRoot, <<>>) # {}
    /\ deleted_nodes(CommittedTracer) # {}
    /\ CommittedRoot.t = "full"
    /\ \E i \in 1..16 : CommittedRoot.children[i].t = "hash"
    /\ DOMAIN SetOf(tt_last.set).nodes
          = DirtyPaths(CommittedRoot, <<>>) \cup deleted_nodes(CommittedTracer)

\* The node of a trie at a path
RECURSIVE NodeAt(_, _)
NodeAt(n, path) ==
    IF path = <<>> THEN n
    ELSE IF n.t = "short" THEN NodeAt(n.val, Drop(path, Len(n.key)))
    ELSE NodeAt(n.children[Head(path) + 1], Tail(path))

\* A child as its parent's encoding refers to it
RefOf(child) ==
    IF child.t \in {"short", "full"} THEN HashNode(Unwrap(child.flags.hash)) ELSE child

\* C15: every node entry of a commit has hash = Keccak-256(blob), and its
\* blob is the encoding of the node at its path: for a short node the key
\* in compact form and the reference of its child, for a full node the
\* references of its 16 children and the value slot.
C15_EntryHashIsKeccakOfBlob ==
    LastCommit =>
        \A p \in DOMAIN SetOf(tt_last.set).nodes :
            LET e == SetOf(tt_last.set).nodes[p]
                n == NodeAt(CommittedRoot, p)
            IN ~TrieNode_is_deleted(e) =>
                 /\ e.hash = Some(keccak256(Unwrap(e.blob)))
                 /\ e.hash = n.flags.hash
                 /\ IF n.t = "short"
                    THEN /\ Len(Unwrap(e.blob)) = 2
                         /\ compact_to_hex(Unwrap(e.blob)[1]) = n.key
                         /\ Unwrap(e.blob)[2] = ChildRef(RefOf(n.val))
                    ELSE Unwrap(e.blob) = [i \in 1..17 |-> ChildRef(RefOf(n.children[i]))]

\* A commit that wrote an extension, a branch and a leaf
C15_Witness ==
    /\ LastCommit
    /\ \E p, q, r \in DOMAIN SetOf(tt_last.set).nodes :
          /\ NodeAt(CommittedRoot, p).t = "full"
          /\ NodeAt(CommittedRoot, q).t = "short" /\ NodeAt(CommittedRoot, q).val.t = "value"
          /\ NodeAt(CommittedRoot, r).t = "short" /\ NodeAt(CommittedRoot, r).val.t = "full"
          /\ \A x \in {p, q, r} :
                SetOf(tt_last.set).nodes[x].hash
                    = Some(keccak256(Unwrap(SetOf(tt_last.set).nodes[x].blob)))

----------------------------------------------------------------------------
(* C11 *)

\* The owners whose storage trie the reads since state_at loaded
RdWarmed == DOMAIN rd_tdb.storage_tries

\* C11: after state_at(root, layers) and any get_account / get_storage
\* calls, calculate_hash returns root, and commit returns root with no
\* node set for the account trie.
C11_ReadsWriteNoAccount ==
    /\ rd_last.op = "calculate_hash" => rd_last.res = Ok(rd_head.state_root)
    /\ rd_last.op = "commit"
          => /\ rd_last.res.st = "Ok"
             /\ Unwrap(rd_last.res.val).root_hash = rd_head.state_root
             /\ B256_ZERO \notin DOMAIN Unwrap(rd_last.res.val).node_set

\* A commit after get_storage for an address that has no account: the
\* account trie's node set holds nodes and the root is another one
C11_Witness ==
    /\ rd_last.op = "commit"
    /\ rd_last.res.st = "Ok"
    /\ \E h \in RdWarmed :
          AccountAt(rd_head.state_root, RdDifflayer, rd_db, h) = None
    /\ Unwrap(rd_last.res.val).root_hash # rd_head.state_root
    /\ B256_ZERO \in DOMAIN Unwrap(rd_last.res.val).node_set

----------------------------------------------------------------------------
(* C12: the two tasks of batch_update_and_commit *)

\* The same call with the tasks run one after the other
TkSequential ==
    batch_update_and_commit(tk_call.tdb, tk_db, EmptyMap, tk_call.root_hash,
                            tk_call.difflayer, tk_call.input.states,
                            tk_call.input.states_rebuild, tk_call.input.storage_states)

\* The account of h in an account trie
TkAccountIn(trie, h) == StateTrie_get_account_with_hash_state(Unwrap(trie), tk_db, h).res

\* The account trie as state_at opened it for the running call
TkOpened == state_at(tk_call.tdb, tk_call.root_hash, tk_call.difflayer).account_trie

\* While the tasks run, the account trie holds for every owner with storage
\* changes the account it held before the call (or none, once Task 1
\* deleted a rebuilt owner), and no storage trie is installed in the driver
TkNoStorageRootYet ==
    /\ tk_a.acc.tdb.storage_tries = EmptyMap
    /\ \A h \in DOMAIN tk_b :
         \/ TkAccountIn(tk_a.acc.tdb.account_trie, h) = TkAccountIn(TkOpened, h)
         \/ /\ h \in tk_call.input.states_rebuild
            /\ TkAccountIn(tk_a.acc.tdb.account_trie, h) = Ok(None)

\* A step inside the join changes Task 1 or one owner's Task 2, never both;
\* Task 1 changes nothing of the driver but its account trie
TkDisjointStep ==
    (tk_pc = "tasks" /\ tk_pc' = "tasks") =>
        /\ tk_a' = tk_a \/ tk_b' = tk_b
        /\ [tk_a'.acc.tdb EXCEPT !.account_trie = tk_a.acc.tdb.account_trie] = tk_a.acc.tdb
        /\ \A h \in DOMAIN tk_b, g \in DOMAIN tk_b :
             (tk_b'[h] # tk_b[h] /\ g # h) => tk_b'[g] = tk_b[g]

\* C12: in batch_update_and_commit Task A (the account trie) and the
\* per-owner Tasks B (the storage tries) touch disjoint trie instances, no
\* storage root is written into the account trie until both have completed,
\* and the returned root, node set and updated storage roots are those of
\* the sequential run under every interleaving of the tasks.
C12_TasksDisjointSameResult ==
    /\ [](tk_pc = "tasks" /\ tk_a.acc.res.st = "Ok" => TkNoStorageRootYet)
    /\ [](tk_last.op = "batch_update_and_commit" => tk_last.res = TkSequential.res)
    /\ [][TkDisjointStep]_vars

\* A second block over a flushed backend returned, after Task 1 deleted a
\* rebuilt owner and another account while Task 2 wrote the owner's storage
C12_Witness ==
    /\ tk_last.op = "batch_update_and_commit"
    /\ tk_last.res.st = "Ok"
    /\ tk_blocks = 2
    /\ tk_db # EmptyMap
    /\ tk_call.input.states_rebuild # {}
    /\ DOMAIN tk_call.update_accounts # {}
    /\ DOMAIN Unwrap(tk_last.res.val).diff_storage_roots # {}

----------------------------------------------------------------------------
(* C21: the PathDB as a key-value map *)

\* C21: with no backend failure, get_raw(k) returns the value of the latest
\* put_raw(k) not followed by delete_raw(k) and None otherwise, exists_raw(k)
\* is true exactly when get_raw(k) is Some, and get_raw / exists_raw never
\* change what a later read returns: every read answers from the map the
\* puts and deletes describe.
C21_PlainKeyValueMap ==
    \A k \in KvKeys :
        /\ get_raw(kv_cache, kv_db, k) = kv_map[k]
        /\ exists_raw(kv_cache, kv_db, k) = IsSome(kv_map[k])

\* exists_raw of a stored key missed the cache: a get_raw of the key now
\* answers with the empty value cached for the existence
C21_Witness ==
    /\ kv_last.op = "exists_raw"
    /\ kv_last.res = TRUE
    /\ kv_map[kv_last.key] = Some(<<9>>)
    /\ get_raw(kv_cache, kv_db, kv_last.key) = Some(<<>>)

----------------------------------------------------------------------------
(* C22 *)

\* C22: if the backend write of put_raw(k, v) or the backend delete of
\* delete_raw(k) fails, the call returns an error and afterwards the cache
\* holds no entry for k, so a later get of k reads the backend value.
C22_FailedWriteEvicts ==
    [][ \A key \in PDBNodeKeys :
          (PDBPut(key, TRUE) \/ PDBDelete(key, TRUE))
            => /\ ~pdb_last'.ok
               /\ CachePeek(pdb_cache', key) = None
               /\ pdb_db'[key] = pdb_db[key]
               /\ get_raw(pdb_cache', pdb_db', key) = pdb_db'[key] ]_vars

\* A put_raw failed while RocksDB held another value for a node key, and no
\* node key is cached any more
C22_Witness ==
    /\ pdb_last = PDBLast("insert", FALSE, FALSE)
    /\ \E key \in PDBNodeKeys : pdb_db[key] = Some(<<7>>)
    /\ \A key \in PDBNodeKeys : CachePeek(pdb_cache, key) = None
    /\ pdb_cache # <<>>

----------------------------------------------------------------------------
(* C23: get_raw next to a writer *)

RcAllReturned == rc_reader.pc = "idle" /\ rc_writer.pc = "idle"

\* The cache entry of k, if any, is the value RocksDB holds for k
RcInLockstep(k) ==
    IsSome(CachePeek(rc_cache, k)) => Unwrap(CachePeek(rc_cache, k)) = rc_db[k]

\* C23: when get_raw(k) on a cache miss runs concurrently with put_raw(k, v),
\* delete_raw(k) or commit_difflayer touching k, then once all calls have
\* returned the cache entry for k, if any, equals the backend value for k:
\* no stale value is left in the cache.
C23_NoStaleEntryAfterRace ==
    RcAllReturned => \A k \in RcKeys : RcInLockstep(k)

\* Calls overlapped, all have returned, and the cache holds for n1 a value
\* that RocksDB no longer holds
C23_Witness ==
    /\ RcAllReturned
    /\ rc_overlap
    /\ IsSome(CachePeek(rc_cache, "n1"))
    /\ Unwrap(CachePeek(rc_cache, "n1")) # rc_db["n1"]

----------------------------------------------------------------------------
(* C24, C25, C26: the driver's calls *)

CaBatchDone == ca_last.op = "batch_update_and_commit"

\* C24: a backend or decode error that occurs while batch_update_and_commit
\* updates the account trie (Task A), builds or updates a storage trie
\* (Task B), or commits, is returned to the caller as an Err result: the
\* call runs to completion or fails with an error and never aborts the
\* calling thread.
C24_BatchErrorsAreReturned ==
    CaBatchDone => ca_last.res.st \in {"Ok", "Err"}

\* A batch whose read of one backend node failed ended in a panic
C24_Witness ==
    /\ CaBatchDone
    /\ ca_last.lost # {}
    /\ ca_last.res.st = "Panic"

CaDriverOps == {"get_account", "get_storage", "update_account", "calculate_hash", "commit"}

\* The last call was made on a driver without an account trie: state_at was
\* never called on it, or a completed batch_update_and_commit reset it
CaBeforeStateAt == ca_last.op \in CaDriverOps /\ ~IsSome(ca_last.before.account_trie)

\* C25: get_account, get_storage, update_account, calculate_hash or commit
\* on a driver on which state_at has not been called, or which has been
\* reset by a completed batch_update_and_commit, is reported to the caller
\* as a usage error and does not abort.
C25_BeforeStateAtIsUsageError ==
    CaBeforeStateAt => ca_last.res.st = "Err"

\* get_storage on a driver that a successful batch_update_and_commit reset
\* ended in a panic
C25_Witness ==
    /\ CaBeforeStateAt
    /\ ca_last.op = "get_storage"
    /\ ca_head.state_root # EMPTY_ROOT_HASH
    /\ ca_last.res.st = "Panic"

\* The owners a batch touches
CaTouched(input) == (DOMAIN input.states) \cup (DOMAIN input.storage_states)

\* The same batch on a driver that never made a call
CaOnNewDriver ==
    batch_update_and_commit(TrieDB_new, CaReadable(ca_last.lost), EmptyMap,
                            ca_last.at, None, ca_last.input.states,
                            ca_last.input.states_rebuild, ca_last.input.storage_states)

CaBatchOk == CaBatchDone /\ ca_last.res.st = "Ok"

\* C26: the updated_storage_roots and node sets returned by a
\* batch_update_and_commit call contain only owners touched by that call and
\* nothing left over from an earlier call on the same driver, whether that
\* earlier call succeeded or failed; after a successful call the driver holds
\* no account trie, storage tries, accounts_with_storage_trie,
\* updated_storage_roots or diff layers.
C26_NothingLeftOver ==
    CaBatchOk =>
        /\ DOMAIN Unwrap(ca_last.res.val).diff_storage_roots \subseteq CaTouched(ca_last.input)
        /\ DOMAIN Unwrap(ca_last.res.val).node_set
              \subseteq CaTouched(ca_last.input) \cup {B256_ZERO}
        /\ ca_last.res = CaOnNewDriver.res
        /\ ca_tdb = TrieDB_new

\* A successful batch returned a storage root for an owner that only an
\* earlier, failed call on the driver had touched
C26_Witness ==
    /\ CaBatchOk
    /\ ca_last.before.updated_storage_roots # EmptyMap
    /\ ~(DOMAIN Unwrap(ca_last.res.val).diff_storage_roots \subseteq CaTouched(ca_last.input))

----------------------------------------------------------------------------
(* C27 *)

\* C27: NodeSet.merge_set(other) requires equal owners: called with another
\* owner it returns an error and leaves self's nodes, leaves and counters as
\* they were; called with the same owner it succeeds.
C27_MergeSetRequiresEqualOwners ==
    [][NsMergeSet =>
         IF ns_a.owner # ns_b.owner
         THEN ns_last'.res = "Err" /\ ns_a' = ns_a
         ELSE ns_last'.res = "Ok"]_vars

\* a merge_set of two non-empty sets of different owners has returned Err
C27_Witness ==
    /\ ns_last.op = "merge_set"
    /\ ns_last.res = "Err"
    /\ ns_a.owner # ns_b.owner
    /\ DOMAIN ns_a.nodes # {}
    /\ ns_a.leaves # <<>>
    /\ DOMAIN ns_b.nodes # {}

----------------------------------------------------------------------------
(* C28 *)

\* C28: MergedNodeSet.merge(set) with an owner that is already present
\* returns an error, and the set merged before for that owner stays.
C28_DuplicateMergeIsAnError ==
    [][\A which \in {"a", "b"} :
         (NsMerge(which) /\ NsSet(which).owner \in DOMAIN ns_merged)
            => (ns_last'.res = "Err" /\ ns_merged' = ns_merged)]_vars

\* a second merge for an owner has been made
C28_Witness ==
    /\ ns_last.op = "merge"
    /\ ns_last.res # "Ok"
    /\ NsSet(ns_last.which).owner \in DOMAIN ns_merged

----------------------------------------------------------------------------
(* C29 *)

NsEntries == UNION { {o} \X (DOMAIN ns_merged[o].nodes) : o \in DOMAIN ns_merged }

NsBackendKey(e) ==
    IF e[1] = B256_ZERO THEN <<"A">> \o e[2] ELSE <<"S">> \o e[1] \o e[2]

\* C29: the flat diff map of a MergedNodeSet holds entry (owner, path) under
\* A||path when the owner is zero and under S||owner||path otherwise;
\* distinct entries have distinct keys, so the flat map has as many entries
\* as the node maps of all owners together and each key holds its own node.
C29_FlatMapKeepsEveryEntry ==
    /\ DOMAIN to_diff_nodes(ns_merged) = { NsBackendKey(e) : e \in NsEntries }
    /\ \A e \in NsEntries :
          to_diff_nodes(ns_merged)[NsBackendKey(e)] = ns_merged[e[1]].nodes[e[2]]
    /\ \A e1, e2 \in NsEntries : e1 # e2 => NsBackendKey(e1) # NsBackendKey(e2)
    /\ Cardinality(DOMAIN to_diff_nodes(ns_merged)) = Cardinality(NsEntries)

\* the account trie set and a storage trie set are merged, each with a node
\* at the root path, and the two nodes differ
C29_Witness ==
    /\ {B256_ZERO, a1} \subseteq DOMAIN ns_merged
    /\ <<>> \in DOMAIN ns_merged[B256_ZERO].nodes
    /\ <<>> \in DOMAIN ns_merged[a1].nodes
    /\ ns_merged[B256_ZERO].nodes[<<>>] # ns_merged[a1].nodes[<<>>]

----------------------------------------------------------------------------
(* C30 *)

NsSameContents(x, y) ==
    /\ x.owner = y.owner
    /\ x.nodes = y.nodes
    /\ BagOf(x.leaves) = BagOf(y.leaves)
    /\ x.updates = y.updates
    /\ x.deletes = y.deletes

\* C30: two NodeSets with the same owner, the same (path, node) entries, the
\* same multiset of leaves and the same counters have the same signature,
\* whatever the order their nodes and leaves were added or merged in.
C30_SignatureOfContents ==
    NsSameContents(ns_a, ns_b) => signature(ns_a) = signature(ns_b)

\* the two sets hold the same contents with their leaves in different order
C30_Witness ==
    /\ NsSameContents(ns_a, ns_b)
    /\ ns_a.leaves # ns_b.leaves
    /\ DOMAIN ns_a.nodes # {}

----------------------------------------------------------------------------
(* C31 *)

\* C31: each block adds its DiffLayer at the front of the collection: after
\* insert_difflayer for block N and then for block N+1 the layer of block
\* N+1 is the first of the sequence, and a key or storage root that both
\* layers hold resolves to the entry of block N+1.
C31_NewLayerAtFront ==
    [][\A l \in DLLayerSet :
         DLInsertLayer(l) =>
            /\ Head(dl_layers') = l
            /\ \A k \in DOMAIN l.diff_nodes :
                  DiffLayers_get_trie_nodes(dl_layers', k) = Some(l.diff_nodes[k])
            /\ \A o \in DOMAIN l.diff_storage_roots :
                  DiffLayers_get_storage_root(dl_layers', o)
                     = Some(l.diff_storage_roots[o])]_vars

\* two layers were inserted that hold a common key and a common owner with
\* different entries
C31_Witness ==
    /\ Len(dl_layers) = 2
    /\ \E k \in DLKeys :
          /\ k \in DOMAIN dl_layers[1].diff_nodes
          /\ k \in DOMAIN dl_layers[2].diff_nodes
          /\ dl_layers[1].diff_nodes[k] # dl_layers[2].diff_nodes[k]
    /\ \E o \in DLOwners :
          /\ o \in DOMAIN dl_layers[1].diff_storage_roots
          /\ o \in DOMAIN dl_layers[2].diff_storage_roots
          /\ dl_layers[1].diff_storage_roots[o] # dl_layers[2].diff_storage_roots[o]

----------------------------------------------------------------------------
(* C32 *)

\* C32: the global driver singleton is initialized exactly once: a call of
\* init_global_manager that finds it initialized, with the same or another
\* path, reports a usage error to its caller.
C32_SecondInitIsUsageError ==
    [][\A t \in MgThreads :
         (MgGetOrInit(t) /\ mg_cell.state = "set")
            => mg_threads'[t].res = "UsageError"]_vars

\* the singleton, once set, keeps its instance and path
MgSetOnce ==
    [][mg_cell.state = "set" => mg_cell' = mg_cell]_vars

\* an init_global_manager call with another path has returned on the
\* singleton that an earlier call set
C32_Witness ==
    \E t \in MgThreads :
        /\ mg_cell.state = "set"
        /\ mg_threads[t].op = "init"
        /\ mg_threads[t].pc = "idle"
        /\ mg_threads[t].path # mg_cell.path

----------------------------------------------------------------------------
(* C33 *)

\* C33: every latest_persist_state call, also one that runs next to flush
\* calls, returns a block number and a state root that one flush wrote
\* together.
C33_PairOfOneFlush ==
    ps_last.st = "Ok" =>
        \E n \in 1..MaxPersistBlock : Unwrap(ps_last.val) = <<n, PDBRootOf(n)>>

\* a latest_persist_state call has returned a pair after two flushes
C33_Witness ==
    /\ ps_last.st = "Ok"
    /\ ps_flushed >= 2

----------------------------------------------------------------------------
(* C34 *)

\* the last call wrote the owner with Some account, no storage changes and
\* no rebuild
RecreatedPlain(last, h) ==
    /\ last.op = "batch_update_and_commit"
    /\ last.res.st = "Ok"
    /\ h \in DOMAIN last.input.states
    /\ IsSome(last.input.states[h])
    /\ h \notin last.input.states_rebuild
    /\ h \notin DOMAIN last.input.storage_states

\* block N, the block under the last one, is pending, left the owner absent
\* and recorded a storage root for it: it deleted the account
DeletedInBlockBefore(h) ==
    /\ Len(drv_chain) >= 2
    /\ IsSome(drv_chain[2].difflayer)
    /\ h \in DOMAIN Unwrap(drv_chain[2].difflayer).diff_storage_roots
    /\ ~IsSome(AccountBefore(h))

\* C34: when block N deletes account a and block N+1, built over the layer
\* of block N, writes a again with no storage changes and a not rebuilt,
\* the storage root of a in the state of block N+1 is EMPTY_ROOT.
C34_RecreatedAfterDeleteIsEmpty ==
    \A h \in DrvOwners :
        (RecreatedPlain(drv_last, h) /\ DeletedInBlockBefore(h))
        => (/\ IsSome(AccountAfter(h))
            /\ Unwrap(AccountAfter(h)).storage_root = EMPTY_ROOT_HASH)

\* the account was absent under the pending layer of the block before,
\* which holds a storage root for it, and the last block wrote it again
C34_Witness ==
    /\ RecreatedPlain(drv_last, a1)
    /\ DeletedInBlockBefore(a1)
    /\ IsSome(AccountAfter(a1))

----------------------------------------------------------------------------
(* C35 *)

\* what a new driver with an empty cache returns for the last call
UcOnNewDriver ==
    update_and_commit(TrieDB_new, EmptyMap, UcBackend, uc_last.at.state_root,
                      UcDifflayer(uc_last.at), uc_last.input.states,
                      uc_last.input.states_rebuild, uc_last.input.storage_states).res

\* C35: the result of a batch update is a function of its arguments and of
\* the backend alone: after any earlier calls on the driver or a clone of
\* it, on the same or another state, it returns the new root and the node
\* sets that a new driver returns.
C35_ResultOfArgumentsAlone ==
    uc_last.op = "update_and_commit" => uc_last.res = UcOnNewDriver

\* a call has returned on a state built by an earlier call
C35_Witness ==
    /\ uc_last.op = "update_and_commit"
    /\ uc_last.res.st = "Ok"
    /\ uc_calls >= 2
    /\ uc_last.at.layers # <<>>

----------------------------------------------------------------------------
(* C36 *)

\* the last batch had storage changes for an owner that has no entry in
\* accounts, or whose entry is None
StorageOwnerWithoutAccount ==
    /\ drv_last.op = "batch_update_and_commit"
    /\ \E h \in DOMAIN LastIn.storage_states :
          \/ h \notin DOMAIN LastIn.states
          \/ ~IsSome(LastIn.states[h])

\* C36: batch_update_and_commit handles every owner key of storage, also an
\* owner with no entry in accounts or with the entry None: the call returns
\* Ok or Err and never aborts.
C36_StorageOwnerNeverAborts ==
    StorageOwnerWithoutAccount => drv_last.res.st \in {"Ok", "Err"}

\* a batch with storage changes for an owner without an account entry was
\* run on a state that holds the owner
C36_Witness ==
    /\ StorageOwnerWithoutAccount
    /\ Len(drv_chain) >= 1
    /\ IsSome(AccountAt(drv_last.root_hash, PostDifflayer, drv_db, a1))

----------------------------------------------------------------------------
(* C37 *)

\* a child task holds nothing, its own child set, or its own child set and
\* then the parent set: it takes the parent lock holding at most its own
\* child lock, and takes no child lock while it holds the parent lock
PcLockOrder ==
    \A t \in PcChildren :
        pc_held[t] \in {<<>>, <<PcChildSet(t)>>, <<PcChildSet(t), PcParentSet>>}

\* a task that has ended holds no lock, and neither does the caller while
\* it waits for the tasks
PcReleased ==
    /\ \A t \in PcChildren : pc_task[t] \in {"ready", "done"} => pc_held[t] = <<>>
    /\ pc_main \in {"par_iter", "collected", "returned"} => pc_held[PcMain] = <<>>

\* C37: a parallel commit always terminates: each child task holds at most
\* its own child NodeSet lock while it acquires the parent lock, no task
\* acquires a child lock while holding the parent lock, every lock is
\* released before the task ends, and under fair scheduling all child
\* tasks finish and commit returns.
C37_ParallelCommitTerminates ==
    /\ [](PcLockOrder /\ PcReleased)
    /\ <>(pc_main = "returned" /\ \A t \in PcChildren : pc_task[t] = "done")

\* commit has returned after tasks met at the parent lock: every child set
\* was merged into the parent set
C37_Witness ==
    /\ pc_main = "returned"
    /\ \A t \in PcChildren : pc_task[t] = "done" /\ pc_size[PcChildSet(t)] > 0
    /\ pc_size[PcParentSet] = 1 + pc_size[PcChildSet("c1")] + pc_size[PcChildSet("c2")]
                                 + pc_size[PcChildSet("c3")]
    /\ \A th \in PcThreads : pc_held[th] = <<>>

----------------------------------------------------------------------------
(* C38 *)

SmLastCommit == sm_last.op = "commit" /\ IsSome(sm_last.set)
SmSet == Unwrap(sm_last.set)
SmTracer == Unwrap(sm_last.pre).tracer

\* The paths of the short and full nodes the committer walks: the nodes
\* that are not clean with a hash, from the root down
RECURSIVE WalkedPaths(_, _)
WalkedPaths(n, path) ==
    CASE n.t = "short" ->
            IF IsSome(n.flags.hash) /\ ~n.flags.dirty THEN {}
            ELSE {path} \cup (IF n.val.t = "full" THEN WalkedPaths(n.val, path \o n.key)
                              ELSE {})
      [] n.t = "full" ->
            IF IsSome(n.flags.hash) /\ ~n.flags.dirty THEN {}
            ELSE {path} \cup UNION { WalkedPaths(n.children[i + 1], Append(path, i)) :
                                       i \in 0..15 }
      [] OTHER -> {}

\* the walked nodes without a hash: embedded in their parent
EmbeddedPaths(root) ==
    { p \in WalkedPaths(root, <<>>) : ~IsSome(Node_cache(NodeAt(root, p)).hash) }

DeletedEntries(set) == { p \in DOMAIN set.nodes : TrieNode_is_deleted(set.nodes[p]) }

\* C38: in every NodeSet produced by commit, also after parallel child
\* sets are merged, updates is the number of entries of nodes that are not
\* deleted and deletes the number of deleted entries, so updates + deletes
\* is the size of the node map: no path is added twice.
C38_CountersCountEntries ==
    SmLastCommit =>
        /\ SmSet.updates = Cardinality((DOMAIN SmSet.nodes) \ DeletedEntries(SmSet))
        /\ SmSet.deletes = Cardinality(DeletedEntries(SmSet))
        /\ SmSet.updates + SmSet.deletes = Cardinality(DOMAIN SmSet.nodes)

\* a parallel commit of a branch root whose set holds node entries, a
\* deleted entry of the tracer and a deleted entry of an embedded node
C38_Witness ==
    /\ SmLastCommit
    /\ sm_last.parallel
    /\ sm_last.hashed.t = "full"
    /\ SmSet.updates >= 2
    /\ deleted_nodes(SmTracer) # {}
    /\ EmbeddedPaths(sm_last.hashed) \cap DeletedEntries(SmSet) # {}
    /\ SmSet.deletes >= 2

----------------------------------------------------------------------------
(* C39 *)

\* the dirty nodes of the committed trie that are embedded in their parent
DirtyEmbedded ==
    { p \in EmbeddedPaths(sm_last.hashed) : Node_cache(NodeAt(sm_last.hashed, p)).dirty }

\* the walked nodes with a hash of their own
HashedPaths ==
    WalkedPaths(sm_last.hashed, <<>>) \ EmbeddedPaths(sm_last.hashed)

\* the paths read from the backend or a diff layer since the trie was opened
ReadPaths == DOMAIN SmTracer.access_list

IsLeafNode(n) == n.t = "short" /\ n.val.t = "value"

\* C39: when a dirty node is embedded in its parent (it has no hash of its
\* own), commit adds no update entry and no leaf for its path and keeps
\* the node inline in the parent: the leaves are those of the hashed leaf
\* nodes, and the blob of every hashed node is its encoding with the
\* embedded nodes below it inline; when the path was read during the
\* transaction, commit adds a deleted entry for it, and the write of the
\* set removes the node stored at that path.
C39_EmbeddedNodeStaysInline ==
    SmLastCommit =>
        /\ \A p \in DirtyEmbedded :
              IF p \in ReadPaths
              THEN /\ p \in DeletedEntries(SmSet)
                   /\ NodeKey(B256_ZERO, p) \notin DOMAIN sm_db
              ELSE p \notin DOMAIN SmSet.nodes
        /\ Len(SmSet.leaves)
              = Cardinality({ p \in HashedPaths : IsLeafNode(NodeAt(sm_last.hashed, p)) })
        /\ \A p \in HashedPaths :
              /\ p \in DOMAIN SmSet.nodes
              /\ SmSet.nodes[p].blob
                    = Some(node_to_bytes(Collapsed(NodeAt(sm_last.hashed, p))))
              /\ SmSet.nodes[p].hash = Some(keccak256(Unwrap(SmSet.nodes[p].blob)))

\* a commit with a dirty embedded leaf at a path that was read, which got
\* a deleted entry, and a dirty embedded node at a path that was not read
C39_Witness ==
    /\ SmLastCommit
    /\ \E p \in DirtyEmbedded :
          /\ p \in ReadPaths
          /\ IsLeafNode(NodeAt(sm_last.hashed, p))
          /\ p \in DeletedEntries(SmSet)
    /\ \E p \in DirtyEmbedded : p \notin ReadPaths /\ p \notin DOMAIN SmSet.nodes
    /\ \E p \in HashedPaths : IsLeafNode(NodeAt(sm_last.hashed, p))

====
